---- MODULE Spec2Model ----
(***************************************************************************)
(* Blustream ACM200 integration: the telnet-style device client            *)
(* (client.py), the routing poller (coordinator.py) and the client that    *)
(* async_setup_entry stores in the registry (__init__.py).                 *)
(*                                                                         *)
(* Text is modelled as a sequence of lines, a line as a sequence of        *)
(* tokens, a token as a string: a keyword as the device spells it ("OUT",  *)
(* "Output", "auto"), one decimal digit ("0".."9"), a blank " ", or a      *)
(* separator (":").  Keywords and digits are word characters for \b.       *)
(***************************************************************************)
EXTENDS Integers, Sequences, FiniteSets, TLC

\* ------------------------------------------------------------ bounds
\* Number of outputs the coordinator is configured with (num_outputs).
NumOutputs == 2
\* Largest output id a caller passes to switch_route (0..MaxArg, 0 is invalid).
MaxArg == 1
\* Largest number of lines of a response text drawn for the parser.
MaxLines == 2
\* num_inputs of the config entry.
NumInputs == 2
\* max_bytes of _read_until_prompt, in tokens (64000 bytes in the code).
MaxBytes == 3
\* Largest chunk reader.read(1024) returns, in tokens.
MaxChunk == 2
MaxLabels == 3
MaxPoll == 10

\* ------------------------------------------------------------ tokens
Digits == {"0", "1", "2", "3", "4", "5", "6", "7", "8", "9"}

\* int() of one decimal digit.
DigitVal(c) ==
    CASE c = "0" -> 0 [] c = "1" -> 1 [] c = "2" -> 2 [] c = "3" -> 3
      [] c = "4" -> 4 [] c = "5" -> 5 [] c = "6" -> 6 [] c = "7" -> 7
      [] c = "8" -> 8 [] c = "9" -> 9

\* str() of one decimal digit.
DigitChar(d) ==
    CASE d = 0 -> "0" [] d = 1 -> "1" [] d = 2 -> "2" [] d = 3 -> "3"
      [] d = 4 -> "4" [] d = 5 -> "5" [] d = 6 -> "6" [] d = 7 -> "7"
      [] d = 8 -> "8" [] d = 9 -> "9"

\* Tokens that are not word characters: \b holds next to them, \s matches " ".
NonWord == {" ", ":", ",", ">"}

\* str.upper() / re.IGNORECASE on the keyword spellings of the alphabet.
Upper(t) ==
    CASE t \in {"out", "Out"} -> "OUT"
      [] t \in {"output", "Output"} -> "OUTPUT"
      [] t \in {"from", "From"} -> "FROM"
      [] t \in {"fr", "Fr"} -> "FR"
      [] t \in {"in", "In"} -> "IN"
      [] t \in {"input", "Input"} -> "INPUT"
      [] t \in {"auto", "Auto"} -> "AUTO"
      [] OTHER -> t

\* int(s) of a captured digit string.
RECURSIVE IntOf(_)
IntOf(ds) ==
    IF ds = <<>> THEN 0
    ELSE 10 * IntOf(SubSeq(ds, 1, Len(ds) - 1)) + DigitVal(ds[Len(ds)])

\* The least element of a non-empty set S of naturals: the first of i, i + 1,
\* ... in S.
RECURSIVE MinFrom(_, _)
MinFrom(S, i) == IF i \in S THEN i ELSE MinFrom(S, i + 1)

Min(S) == MinFrom(S, 0)

\* The greatest element of a non-empty set S of integers.
Max(S) == CHOOSE x \in S : \A y \in S : y <= x

\* ------------------------------------------------------------ ROUTE_RE_LIST
\* First index >= i of line whose token is not in S (Len(line)+1 if none).
RECURSIVE SkipWhile(_, _, _)
SkipWhile(line, i, S) ==
    IF i <= Len(line) /\ line[i] \in S THEN SkipWhile(line, i + 1, S) ELSE i

\* \b before position i / after position i.
BoundaryBefore(line, i) == i = 1 \/ line[i - 1] \in NonWord
BoundaryAfter(line, i) == i = Len(line) \/ line[i + 1] \in NonWord

NoGroup == [ok |-> FALSE, cap |-> <<>>, next |-> 0]

\* \s*0*([0-9]{1,3}) starting at position p (greedy, backtracking into 0*);
\* next is the position after the capture.
OutGroup(line, p) ==
    LET s == SkipWhile(line, p, {" "})
        z == SkipWhile(line, s, {"0"})
        e == SkipWhile(line, z, Digits)
    IN  IF e = s THEN NoGroup
        ELSE IF e = z THEN [ok |-> TRUE, cap |-> <<"0">>, next |-> e]
        ELSE LET m == IF e - z > 3 THEN 3 ELSE e - z
             IN  [ok |-> TRUE, cap |-> SubSeq(line, z, z + m - 1), next |-> z + m]

\* \s*0*([0-9]{1,3}|AUTO)\b starting at position p.
InGroup(line, p) ==
    LET s == SkipWhile(line, p, {" "})
        z == SkipWhile(line, s, {"0"})
        e == SkipWhile(line, z, Digits)
    IN  IF e = z /\ e <= Len(line) /\ Upper(line[e]) = "AUTO"
        THEN IF BoundaryAfter(line, e)
             THEN [ok |-> TRUE, cap |-> <<line[e]>>, next |-> e + 1]
             ELSE NoGroup
        ELSE IF e = s THEN NoGroup
        ELSE IF ~(e > Len(line) \/ line[e] \in NonWord) THEN NoGroup
        ELSE IF e = z THEN [ok |-> TRUE, cap |-> <<"0">>, next |-> e]
        ELSE IF e - z > 3 THEN NoGroup
        ELSE [ok |-> TRUE, cap |-> SubSeq(line, z, e - 1), next |-> e]

\* The two patterns of ROUTE_RE_LIST: the keyword spellings each accepts.
ROUTE_RE_LIST ==
    << [out |-> {"OUT", "OUTPUT"}, from |-> {"FROM", "FR"}, in |-> {"IN", "INPUT"}],
       [out |-> {"OUTPUT"}, from |-> {"FROM"}, in |-> {"INPUT"}] >>

NoMatch == [ok |-> FALSE, g1 |-> <<>>, g2 |-> <<>>]

\* Positions k > j where "\bIN(?:PUT)?\s*0*([0-9]{1,3}|AUTO)\b" matches.
InAt(rx, line, j) ==
    {k \in (j + 1)..Len(line) :
        /\ Upper(line[k]) \in rx.in
        /\ BoundaryBefore(line, k)
        /\ InGroup(line, k + 1).ok}

\* Positions j >= q where "\b(?:FROM|FR)\b" matches and an IN group follows.
FromAt(rx, line, q) ==
    {j \in q..Len(line) :
        /\ Upper(line[j]) \in rx.from
        /\ BoundaryBefore(line, j)
        /\ BoundaryAfter(line, j)
        /\ InAt(rx, line, j) # {}}

\* Start positions at which the whole pattern matches.
StartAt(rx, line) ==
    {i \in 1..Len(line) :
        /\ Upper(line[i]) \in rx.out
        /\ BoundaryBefore(line, i)
        /\ OutGroup(line, i + 1).ok
        /\ FromAt(rx, line, OutGroup(line, i + 1).next) # {}}

\* rx.search(line): the leftmost match, both ".*?" as short as possible.
Search(rx, line) ==
    IF StartAt(rx, line) = {} THEN NoMatch
    ELSE LET i == Min(StartAt(rx, line))
             g == OutGroup(line, i + 1)
             j == Min(FromAt(rx, line, g.next))
             k == Min(InAt(rx, line, j))
         IN  [ok |-> TRUE, g1 |-> g.cap, g2 |-> InGroup(line, k + 1).cap]

\* ------------------------------------------------------------ _parse_routes
\* A routes dict: a function from the outputs it holds to their inputs.
EmptyRoutes == [o \in {} |-> 0]
\* routes[k] = v
Put(routes, k, v) == (k :> v) @@ routes

\* The body of "for rx in ROUTE_RE_LIST" for one pattern (AUTO variant stored
\* as route 0: the entry is written instead of skipped).
ApplyMatchAutoStored(routes, m) ==
    IF ~m.ok THEN routes
    ELSE IF Upper(m.g2[1]) = "AUTO" THEN Put(routes, IntOf(m.g1), 0)
    ELSE IF IntOf(m.g1) > 0 /\ IntOf(m.g2) > 0
         THEN Put(routes, IntOf(m.g1), IntOf(m.g2))
         ELSE routes

\* The body of "for rx in ROUTE_RE_LIST" for one pattern, without the
\* "out_id > 0 and in_id > 0" check.
ApplyMatchZeroStored(routes, m) ==
    IF ~m.ok THEN routes
    ELSE IF Upper(m.g2[1]) = "AUTO" THEN routes
    ELSE Put(routes, IntOf(m.g1), IntOf(m.g2))

\* The body of "for rx in ROUTE_RE_LIST" for one pattern, where an output
\* that already has a route keeps it.
ApplyMatchKeepFirst(routes, m) ==
    IF ~m.ok THEN routes
    ELSE IF Upper(m.g2[1]) = "AUTO" THEN routes
    ELSE IF IntOf(m.g1) > 0 /\ IntOf(m.g2) > 0 /\ IntOf(m.g1) \notin DOMAIN routes
         THEN Put(routes, IntOf(m.g1), IntOf(m.g2))
         ELSE routes

\* The body of "for rx in ROUTE_RE_LIST" for one pattern, where an AUTO match
\* takes the output out of the routes.
ApplyMatchAutoClears(routes, m) ==
    IF ~m.ok THEN routes
    ELSE IF Upper(m.g2[1]) = "AUTO"
         THEN [k \in DOMAIN routes \ {IntOf(m.g1)} |-> routes[k]]
    ELSE IF IntOf(m.g1) > 0 /\ IntOf(m.g2) > 0
         THEN Put(routes, IntOf(m.g1), IntOf(m.g2))
         ELSE routes

\* The body of "for rx in ROUTE_RE_LIST" for one pattern's search result.
ApplyMatch(routes, m) ==
    IF ~m.ok THEN routes
    ELSE IF Upper(m.g2[1]) = "AUTO" THEN routes
    ELSE IF IntOf(m.g1) > 0 /\ IntOf(m.g2) > 0
         THEN Put(routes, IntOf(m.g1), IntOf(m.g2))
         ELSE routes

\* line.strip()
RECURSIVE StripLine(_)
StripLine(line) ==
    IF line = <<>> THEN line
    ELSE IF line[1] = " " THEN StripLine(Tail(line))
    ELSE IF line[Len(line)] = " " THEN StripLine(SubSeq(line, 1, Len(line) - 1))
    ELSE line

\* Every pattern of the list is applied to the line, in order (no break).
RECURSIVE ParseLine(_, _, _)
ParseLine(routes, line, r) ==
    IF r > Len(ROUTE_RE_LIST) THEN routes
    ELSE ParseLine(ApplyMatch(routes, Search(ROUTE_RE_LIST[r], line)), line, r + 1)

RECURSIVE ParseFrom(_, _, _)
ParseFrom(routes, txt, n) ==
    IF n > Len(txt) THEN routes
    ELSE LET line == StripLine(txt[n])
         IN  IF line = <<>> THEN ParseFrom(routes, txt, n + 1)
             ELSE ParseFrom(ParseLine(routes, line, 1), txt, n + 1)

\* _parse_routes(txt), txt the lines of the text.
ParseRoutes(txt) == ParseFrom(EmptyRoutes, txt, 1)

\* ------------------------------------------------------------ commands
RECURSIVE DecStr(_)
\* str(n) as digit tokens.
DecStr(n) == IF n < 10 THEN <<DigitChar(n)>> ELSE DecStr(n \div 10) \o <<DigitChar(n % 10)>>

\* The decimal digits without padding, as f"{n}" gives them.
Pad3NoPadding(n) == DecStr(n)

\* f"{n:03d}": zero-padded to at least three digits.
Pad3(n) ==
    LET s == DecStr(n)
    IN  IF Len(s) >= 3 THEN s
        ELSE IF Len(s) = 2 THEN <<"0">> \o s
        ELSE <<"0", "0">> \o s

\* client.py switch_route: f"OUT {output:03d} FR {input_:03d}"
SwitchCmd(output, input_) ==
    <<"OUT", " ">> \o Pad3(output) \o <<" ", "FR", " ">> \o Pad3(input_)

\* client.py get_routes_bulk: the bulk-query spellings, in order.
BulkCmds ==
    << <<"OUT", " ", "0", "0", "0", " ", "STATUS">>,
       <<"STATUS">>,
       <<"OUT", "0", "0", "0", "STATUS">>,
       <<"OUT", "0", "0", "0", " ", "STATUS">> >>

\* client.py get_route_for_output: the per-output spellings, in order.
OutCmds(output) ==
    << <<"OUT", " ">> \o Pad3(output) \o <<" ", "STATUS">>,
       <<"OUT">> \o Pad3(output) \o <<"STATUS">> >>

\* client.py get_route_for_output: "if output <= 0: return None" sends
\* nothing; otherwise the spellings are tried in order.
GetRouteCmds(output) == IF output <= 0 THEN <<>> ELSE OutCmds(output)

\* (command.strip() + "\r\n").encode()
Payload(command) == StripLine(command) \o <<"\r\n">>

\* client.py switch_route: the argument check (input not checked).
ValidArgsOutputOnly(output, input_) == output > 0

\* client.py switch_route: both ids must be >= 1, else ValueError.
ValidArgs(output, input_) == output > 0 /\ input_ > 0

\* ------------------------------------------------------------ state
VARIABLES
    pc,         \* client.py: where each task is suspended
    lock,       \* ACM200Client._lock: the task holding it, or NoProc
    waiters,    \* asyncio.Lock's FIFO queue of tasks waiting for it
    conn,       \* the TCP connection of each task's command execution
    cmd,        \* the command each task's _send_and_read was called with
    outcome,    \* what _send_and_read returns or raises once its finally ends
                \* (replied: the response read returned, text is what it gave)
    result,     \* how each task's last switch_route call ended
    args,       \* (output, input_) of each task's running switch_route call
    sent,       \* payloads each task wrote in its current command execution
    poll,       \* _async_update_data: locals of the running cycle (routes is
                \* what it returns), and the record of what it queried
    lastUpdate, \* how the last poll cycle ended
    hist,       \* wire order in the running cycle: "none" no poll command yet,
                \* "poll" a poll command was the last written, "switch" a
                \* switch command was written after a poll command
    text,       \* the response text handed to _parse_routes
    parsed,     \* what _parse_routes returned for it
    parseDone,  \* whether _parse_routes has run
    rpc,        \* __init__.py client: where each caller is suspended
    rconn,      \* __init__.py client: the TCP connection of each caller
    rresult,    \* __init__.py client: how each caller's last switch_route ended
    rsent,      \* __init__.py client: payloads each caller wrote in its call
    current,    \* select.py / media_player.py: each entity's current option
                \* or source
    rd,         \* _read_until_prompt: where one call is, its buf, and what it
                \* returned or raised
    fixture,    \* the device of the get_routes_bulk runs: what it answers to
                \* each bulk spelling, every time
    gb,         \* get_routes_bulk called twice on it: the running call, the
                \* commands it sent, and what each finished call gave
    lb,         \* an entity's input labels: the configured names, the labels
                \* made from them and the label -> input map
    co,         \* a coordinator: its configured poll_interval and
                \* num_outputs, and the update interval it was built with
    entryAt,    \* where each config entry is between set up and unloaded
    domain_data,    \* hass.data[DOMAIN]: the entry ids of "clients" in dict
                    \* order, and "service_registered"
    services,   \* hass.services: async_register calls for switch_route since
                \* the last async_remove
    svc         \* the switch_route service handler: where it is, and the
                \* entry_id, ids and client of its last call

clientVars == <<pc, lock, waiters, conn, cmd, outcome, result, args, sent, poll,
                lastUpdate, hist>>
bulkVars == <<fixture, gb>>
labelVars == <<lb>>
coordVars == <<co>>
setupVars == <<entryAt, domain_data, services, svc>>
unitVars == <<rd, bulkVars, labelVars, coordVars, setupVars>>
parseVars == <<text, parsed, parseDone, unitVars>>
regVars == <<rpc, rconn, rresult, rsent, current>>
vars == <<clientVars, parseVars, regVars>>

Poller == "poll"
Switchers == {"sw1", "sw2"}
Procs == Switchers \cup {Poller}
NoProc == "free"
ArgIds == 0..MaxArg
\* Input ids a caller passes along with them: an invalid and a valid one.
InputArgIds == {0, 1}
\* No switch_route call is running.
NoArgs == <<>>

\* A connection that exists: being established, established, or closing.
Live == {"connecting", "open", "closing"}

Line(outKw, o, fromKw, inKw, v) ==
    <<outKw, " ">> \o o \o <<" ", fromKw, " ", inKw, " ">> \o v

\* Response texts the device may give to a status query.
Responses ==
    { <<>>,
      << Line("OUT", <<"0", "0", "2">>, "FR", "IN", <<"0", "0", "1">>),
         Line("OUT", <<"0", "0", "0">>, "FROM", "IN", <<"0", "0", "2">>),
         Line("OUT", <<"0", "0", "1">>, "FROM", "IN", <<"0", "0", "0">>) >>,
      << Line("OUT", <<"0", "0", "1">>, "FROM", "IN", <<"0", "0", "1">>),
         Line("OUT", <<"0", "0", "3">>, "FROM", "IN", <<"0", "0", "1">>) >>,
      << Line("Output", <<"0", "0", "1">>, "From", "Input", <<"0", "0", "2">>),
         Line("Output", <<"0", "0", "2">>, "From", "Input", <<"AUTO">>) >> }

\* Texts the device may give to a switch command: nothing before the read
\* timeout (or an empty reply), a rejection, an acknowledgement.
SwitchReplies == { <<>>, << <<"ERR">> >>, << <<"OK">> >> }

\* What the device answers to task p's command where a switch command's
\* reply is not looked at: a status text to the poller, nothing to the rest.
RepliesTo(p) == IF p = Poller THEN Responses ELSE {<<>>}

NoOutcome == [k |-> "none", text |-> <<>>, replied |-> FALSE]

IdlePoll ==
    [phase |-> "idle", idx |-> 0, out |-> 0, routes |-> EmptyRoutes,
     bulk |-> EmptyRoutes, bulkDone |-> FALSE, queried |-> <<>>,
     hadData |-> FALSE]

\* ------------------------------------------------------------ poll cycle
\* "for out_id in range(1, num_outputs + 1): if out_id in routes: continue":
\* the next out_id >= o that is queried, 0 when the loop ends.
NextMissing(routes, o) ==
    LET S == {x \in o..NumOutputs : x \notin DOMAIN routes}
    IN  IF S = {} THEN 0 ELSE Min(S)

\* The fallback loop resumed at out_id = o: the next get_route_for_output call
\* (its first spelling), or the end of the cycle.
FallbackFrom(pl, o) ==
    LET m == NextMissing(pl.routes, o)
    IN  IF m = 0 THEN [pl EXCEPT !.phase = "done"]
        ELSE [pl EXCEPT !.phase = "fallback", !.out = m, !.idx = 1,
                        !.queried = Append(@, m)]

\* "if self.num_outputs > 0 and len(routes) < self.num_outputs"
NeedsFallback(routes) == NumOutputs > 0 /\ Cardinality(DOMAIN routes) < NumOutputs

\* get_routes_bulk returned routes.
AfterBulk(pl, routes) ==
    LET pl1 == [pl EXCEPT !.routes = routes, !.bulk = routes, !.bulkDone = TRUE]
    IN  IF NeedsFallback(routes) THEN FallbackFrom(pl1, 1)
        ELSE [pl1 EXCEPT !.phase = "done"]

\* get_routes_bulk gives up after the first spelling that yields nothing.
BulkNextGivesUp(pl) == AfterBulk(pl, EmptyRoutes)

\* get_routes_bulk: the next spelling, or "return {}" after the last.
BulkNext(pl) ==
    IF pl.idx < Len(BulkCmds) THEN [pl EXCEPT !.idx = @ + 1]
    ELSE AfterBulk(pl, EmptyRoutes)

\* get_route_for_output: the next spelling, or "return None" after the last.
OutNext(pl) ==
    IF pl.idx < Len(GetRouteCmds(pl.out)) THEN [pl EXCEPT !.idx = @ + 1]
    ELSE FallbackFrom(pl, pl.out + 1)

\* get_route_for_output stores every route of a response that has the
\* output, not only the output's own.
PollAfterKeepsAllRoutes(pl, oc, routes) ==
    IF oc.k = "cancel" THEN [pl EXCEPT !.phase = "cancelled"]
    ELSE IF pl.phase = "bulk"
    THEN IF oc.k = "ok" /\ DOMAIN routes # {}
         THEN AfterBulk(pl, routes)
         ELSE BulkNext(pl)
    ELSE IF oc.k = "ok" /\ pl.out \in DOMAIN routes
         THEN FallbackFrom([pl EXCEPT !.routes = routes @@ @], pl.out + 1)
         ELSE OutNext(pl)

\* The poll cycle after one _send_and_read ended with outcome oc, routes being
\* _parse_routes of its text: a text is parsed, an Exception is logged and the
\* next spelling tried, a cancellation (not an Exception) ends the cycle.
PollAfter(pl, oc, routes) ==
    IF oc.k = "cancel" THEN [pl EXCEPT !.phase = "cancelled"]
    ELSE IF pl.phase = "bulk"
    THEN IF oc.k = "ok" /\ DOMAIN routes # {}
         THEN AfterBulk(pl, routes)
         ELSE BulkNext(pl)
    ELSE IF oc.k = "ok" /\ pl.out \in DOMAIN routes
         THEN FallbackFrom([pl EXCEPT !.routes = Put(@, pl.out, routes[pl.out])],
                           pl.out + 1)
         ELSE OutNext(pl)

\* The command of the _send_and_read the cycle is in.
CurCmd(pl) ==
    IF pl.phase = "bulk" THEN BulkCmds[pl.idx] ELSE GetRouteCmds(pl.out)[pl.idx]

\* ------------------------------------------------------------ _send_and_read
\* asyncio.Lock.acquire without waiting (lock taken although it is held).
CanAcquireUnlocked(lk, ws) == TRUE

\* asyncio.Lock.acquire without waiting: the lock is free and nobody queues.
CanAcquire(lk, ws) == lk = NoProc /\ ws = <<>>

\* "await writer.wait_closed()" can return (close completion not awaited).
CloseNotAwaited(c) == c \in {"closing", "closed"}

\* "await writer.wait_closed()" can return: the connection is closed.
CloseAwaited(c) == c = "closed"

\* "async with self._lock" then "await self._open()": with the lock as lk, ws
\* and the connections as cn, task p takes the lock and starts connecting, or
\* queues for the lock.
Enter(p, command, lk, ws, cn) ==
    /\ cmd' = [cmd EXCEPT ![p] = command]
    /\ outcome' = [outcome EXCEPT ![p] = NoOutcome]
    /\ sent' = [sent EXCEPT ![p] = <<>>]
    /\ IF CanAcquire(lk, ws)
       THEN /\ lock' = p
            /\ waiters' = ws
            /\ pc' = [pc EXCEPT ![p] = "connecting"]
            /\ conn' = [cn EXCEPT ![p] = "connecting"]
       ELSE /\ lock' = lk
            /\ waiters' = Append(ws, p)
            /\ pc' = [pc EXCEPT ![p] = "waiting"]
            /\ conn' = [cn EXCEPT ![p] = "none"]

\* The caller's task is idle again; what the execution wrote is forgotten.
Idle(p, lk, ws, cn) ==
    /\ lock' = lk
    /\ waiters' = ws
    /\ conn' = cn
    /\ pc' = [pc EXCEPT ![p] = "idle"]
    /\ cmd' = [cmd EXCEPT ![p] = <<>>]
    /\ outcome' = [outcome EXCEPT ![p] = NoOutcome]
    /\ sent' = [sent EXCEPT ![p] = <<>>]

\* Each text a _send_and_read of the poll cycle can return, with
\* _parse_routes of it.
ParsedResponses == {<<t, ParseRoutes(t)>> : t \in Responses}

\* _parse_routes(t) for a text t of Responses.
ParsedResponse(t) == (CHOOSE x \in ParsedResponses : x[1] = t)[2]

\* _send_and_read of task p ended with outcome oc, the lock now lk, ws, the
\* connections cn and the cycle's record pl0: the caller goes on.  switch_route
\* returns or raises; the poll cycle parses the text and sends its next
\* command, or ends ("done": the coordinator has new data).
Return(p, oc, lk, ws, cn, pl0) ==
    IF p \in Switchers
    THEN /\ result' = [result EXCEPT ![p] =
                CASE oc.k = "ok" -> "ok" [] oc.k = "exc" -> "error"
                  [] OTHER -> "cancelled"]
         /\ args' = [args EXCEPT ![p] = NoArgs]
         /\ Idle(p, lk, ws, cn)
         /\ poll' = pl0
         /\ UNCHANGED <<lastUpdate, hist>>
    ELSE /\ UNCHANGED <<result, args>>
         /\ poll' = PollAfter(pl0, oc, ParsedResponse(oc.text))
         /\ IF poll'.phase \in {"done", "cancelled"}
            THEN /\ lastUpdate' = IF poll'.phase = "done" THEN "ok" ELSE "cancelled"
                 /\ hist' = "none"
                 /\ Idle(p, lk, ws, cn)
            ELSE /\ Enter(p, CurCmd(poll'), lk, ws, cn)
                 /\ UNCHANGED <<lastUpdate, hist>>

\* ------------------------------------------------------------ client.py tasks
\* A caller calls switch_route(output, input_).
StartSwitch(p, output, input_) ==
    /\ pc[p] = "idle"
    /\ IF ValidArgs(output, input_)
       THEN /\ result' = [result EXCEPT ![p] = "pending"]
            /\ args' = [args EXCEPT ![p] = <<output, input_>>]
            /\ Enter(p, SwitchCmd(output, input_), lock, waiters, conn)
       ELSE /\ result' = [result EXCEPT ![p] = "ValueError"]
            /\ UNCHANGED <<pc, lock, waiters, conn, cmd, outcome, args, sent>>
    /\ UNCHANGED <<poll, lastUpdate, hist, parseVars, regVars>>

\* The scheduler runs _async_update_data with the locals of the previous run
\* still there: routes, the bulk result and the queried outputs carry over.
StartPollKeepsRoutes ==
    /\ pc[Poller] = "idle"
    /\ poll' = [poll EXCEPT !.phase = "bulk", !.idx = 1]
    /\ hist' = "none"
    /\ lastUpdate' = "pending"
    /\ Enter(Poller, BulkCmds[1], lock, waiters, conn)
    /\ UNCHANGED <<result, args, parseVars, regVars>>

\* The scheduler runs _async_update_data: get_routes_bulk, first spelling.
\* hadData records whether the previous run returned a non-empty snapshot.
StartPoll ==
    /\ pc[Poller] = "idle"
    /\ poll' = [IdlePoll EXCEPT !.phase = "bulk", !.idx = 1,
                                !.hadData = (lastUpdate = "ok"
                                             /\ poll.routes # EmptyRoutes)]
    /\ hist' = "none"
    /\ lastUpdate' = "pending"
    /\ Enter(Poller, BulkCmds[1], lock, waiters, conn)
    /\ UNCHANGED <<result, args, parseVars, regVars>>

\* The lock was released and p is the first waiter: it takes the lock and
\* calls _open.
Wake(p) ==
    /\ pc[p] = "waiting"
    /\ lock = NoProc
    /\ waiters # <<>>
    /\ Head(waiters) = p
    /\ lock' = p
    /\ waiters' = Tail(waiters)
    /\ pc' = [pc EXCEPT ![p] = "connecting"]
    /\ conn' = [conn EXCEPT ![p] = "connecting"]
    /\ UNCHANGED <<cmd, outcome, result, args, sent, poll, lastUpdate, hist,
                   parseVars, regVars>>

\* asyncio.open_connection returns: the banner read starts.
ConnectOk(p) ==
    /\ pc[p] = "connecting"
    /\ pc' = [pc EXCEPT ![p] = "banner"]
    /\ conn' = [conn EXCEPT ![p] = "open"]
    /\ UNCHANGED <<lock, waiters, cmd, outcome, result, args, sent, poll, lastUpdate,
                   hist, parseVars, regVars>>

\* asyncio.open_connection raises OSError and the lock stays held (acquire
\* and release written by hand, the release skipped by the exception).
ConnectFailKeepsLock(p) ==
    /\ pc[p] = "connecting"
    /\ Return(p, [k |-> "exc", text |-> <<>>, replied |-> FALSE], lock, waiters,
              [conn EXCEPT ![p] = "none"], poll)
    /\ UNCHANGED <<parseVars, regVars>>

\* asyncio.open_connection raises OSError: "async with" releases the lock and
\* the exception reaches the caller of _send_and_read.
ConnectFail(p) ==
    /\ pc[p] = "connecting"
    /\ Return(p, [k |-> "exc", text |-> <<>>, replied |-> FALSE], NoProc, waiters,
              [conn EXCEPT ![p] = "none"], poll)
    /\ UNCHANGED <<parseVars, regVars>>

\* The command line is written twice on the connection.
BannerDoneWritesTwice(p) ==
    /\ pc[p] = "banner"
    /\ pc' = [pc EXCEPT ![p] = "read"]
    /\ sent' = [sent EXCEPT ![p] = <<Payload(cmd[p]), Payload(cmd[p])>>]
    /\ hist' = IF p = Poller THEN "poll"
               ELSE IF hist = "poll" THEN "switch"
               ELSE hist
    /\ UNCHANGED <<lock, waiters, conn, cmd, outcome, result, args, poll, lastUpdate, parseVars, regVars>>

\* The banner read ends (prompt, timeout or EOF); the command line is
\* written, drain returns (a command line never fills the write buffer, so
\* drain does not suspend) and the response read starts.  What drain raises
\* is raised in IOError, after the write.
BannerDone(p) ==
    /\ pc[p] = "banner"
    /\ pc' = [pc EXCEPT ![p] = "read"]
    /\ sent' = [sent EXCEPT ![p] = Append(@, Payload(cmd[p]))]
    /\ hist' = IF p = Poller THEN "poll"
               ELSE IF hist = "poll" THEN "switch"
               ELSE hist
    /\ UNCHANGED <<lock, waiters, conn, cmd, outcome, result, args, poll, lastUpdate, parseVars, regVars>>

\* The finally clause starts: writer.close() is issued and wait_closed awaited;
\* oc is what _send_and_read will return or raise.
Closing(p, oc) ==
    /\ pc' = [pc EXCEPT ![p] = "wait_closed"]
    /\ conn' = [conn EXCEPT ![p] = "closing"]
    /\ outcome' = [outcome EXCEPT ![p] = oc]
    /\ UNCHANGED <<lock, waiters, cmd, result, args, sent, poll, lastUpdate,
                   hist, parseVars, regVars>>

\* A reply makes the command fail: _send_and_read raises unless the text is
\* empty.
ReadDoneRepliesChecked(p, t) ==
    /\ pc[p] = "read"
    /\ Closing(p, [k |-> IF t = <<>> THEN "ok" ELSE "exc", text |-> t,
                   replied |-> TRUE])

\* The response read ends (prompt, timeout, EOF or max_bytes) with text t,
\* which _send_and_read will return.
ReadDone(p, t) ==
    /\ pc[p] = "read"
    /\ Closing(p, [k |-> "ok", text |-> t, replied |-> TRUE])

\* An exception in the try block leaves without closing (no finally): the
\* lock is released with the connection open.
IOErrorNoFinally(p) ==
    /\ pc[p] \in {"banner", "read"}
    /\ Return(p, [k |-> "exc", text |-> <<>>, replied |-> FALSE], NoProc, waiters, conn, poll)
    /\ UNCHANGED <<parseVars, regVars>>

\* The banner read, drain or the response read raises (connection reset):
\* the finally clause closes the connection.
IOError(p) ==
    /\ pc[p] \in {"banner", "read"}
    /\ Closing(p, [k |-> "exc", text |-> <<>>, replied |-> FALSE])

\* The event loop completes the close that writer.close() scheduled.
LoopClose(p) ==
    /\ conn[p] = "closing"
    /\ conn' = [conn EXCEPT ![p] = "closed"]
    /\ UNCHANGED <<pc, lock, waiters, cmd, outcome, result, args, sent, poll, lastUpdate, hist, parseVars, regVars>>

\* wait_closed returns (its exceptions are suppressed), "async with" releases
\* the lock and _send_and_read returns or raises.
ExitExec(p) ==
    /\ pc[p] = "wait_closed"
    /\ CloseAwaited(conn[p])
    /\ Return(p, outcome[p], NoProc, waiters, conn, poll)
    /\ UNCHANGED <<parseVars, regVars>>

\* waiters without p.
RECURSIVE Without(_, _)
Without(ws, p) ==
    IF ws = <<>> THEN ws
    ELSE IF Head(ws) = p THEN Without(Tail(ws), p)
    ELSE <<Head(ws)>> \o Without(Tail(ws), p)

Cancelled == [k |-> "cancel", text |-> <<>>, replied |-> FALSE]

\* The caller's task is cancelled while it waits for the lock: it leaves the
\* queue.
CancelWaiting(p) ==
    /\ pc[p] = "waiting"
    /\ Return(p, Cancelled, lock, Without(waiters, p), conn, poll)
    /\ UNCHANGED <<parseVars, regVars>>

\* ... while it is in _open: the attempt is abandoned and the lock released.
CancelConnecting(p) ==
    /\ pc[p] = "connecting"
    /\ Return(p, Cancelled, NoProc, waiters, [conn EXCEPT ![p] = "none"], poll)
    /\ UNCHANGED <<parseVars, regVars>>

\* ... while it is in the try block: the finally clause runs.
CancelIO(p) ==
    /\ pc[p] \in {"banner", "read"}
    /\ Closing(p, Cancelled)

\* ... while it is in wait_closed: the close, scheduled before the task
\* suspended, has completed by the time the task resumes; the lock is released.
CancelWaitClosed(p) ==
    /\ pc[p] = "wait_closed"
    /\ conn[p] = "closed"
    /\ Return(p, Cancelled, NoProc, waiters, conn, poll)
    /\ UNCHANGED <<parseVars, regVars>>

\* ------------------------------------------------------------ __init__.py client
\* The callers of the client that async_setup_entry stores in the registry:
\* the switch_route service, a select entity and a media_player entity.
RegProcs == {"service", "select", "media"}

\* __init__.py switch_route: f"OUT{output:03d}FR{input_:03d}"
RegSwitchCmd(output, input_) == <<"OUT">> \o Pad3(output) \o <<"FR">> \o Pad3(input_)

\* (command + "\r\n").encode("ascii")
RegPayload(command) == command \o <<"\r\n">>

\* __init__.py switch_route: "if output < 1 or input_ < 1: raise ValueError"
RegValidArgs(output, input_) == ~(output < 1 \/ input_ < 1)

\* A caller calls switch_route(output, input_): ValueError, or _send_command
\* calls asyncio.open_connection (no lock is taken).
RStart(p, output, input_) ==
    /\ rpc[p].at = "idle"
    /\ rsent' = [rsent EXCEPT ![p] = <<>>]
    /\ IF RegValidArgs(output, input_)
       THEN /\ rresult' = [rresult EXCEPT ![p] = "pending"]
            /\ rpc' = [rpc EXCEPT ![p] =
                         [at |-> "connecting", oc |-> "none",
                          command |-> RegSwitchCmd(output, input_),
                          args |-> <<output, input_>>, reply |-> "none"]]
            /\ rconn' = [rconn EXCEPT ![p] = "connecting"]
       ELSE /\ rresult' = [rresult EXCEPT ![p] = "ValueError"]
            /\ UNCHANGED <<rpc, rconn>>
    /\ UNCHANGED <<current, clientVars, parseVars>>

RIdle ==
    [at |-> "idle", oc |-> "none", command |-> <<>>, args |-> NoArgs,
     reply |-> "none"]

\* What readline gives: a reply line, a line with a rejection, the empty
\* bytes of a closed connection, or nothing within 0.5 s.
RegReplies == {"line", "rejected", "empty", "timeout"}

\* The entities of one config entry that call the registry client: the
\* select entity of an output and the media_player entity of an output.
Entities == {"select", "media"}

\* self._output_id of each entity (entities exist for range(1, N + 1)).
OutputIdOf(e) == IF e = "select" THEN 1 ELSE NumOutputs

\* f"Input {in_id}": the label of an input that has no friendly name.
InputLabel(in_id) == <<"Input", " ">> \o DecStr(in_id)

\* self._attr_options / self._sources: the labels of range(1, num_inputs + 1).
Options == {InputLabel(i) : i \in 1..NumInputs}

\* self._inputs[option] / self._source_to_input[source]
InputOf(option) == CHOOSE i \in 1..NumInputs : InputLabel(i) = option

\* Options a caller may ask for: those of the list and one that is not.
CalledOptions == Options \cup {InputLabel(NumInputs + 1)}

\* _attr_current_option / _current_source is None.
NoOption == <<>>

\* "self._attr_current_option = option" runs whatever switch_route did.
CurrentAfterAnyOutcome(p, oc, in_id) ==
    IF p \in Entities THEN [current EXCEPT ![p] = InputLabel(in_id)]
    ELSE current

\* What follows "await self._client.switch_route(out_id, in_id)" in
\* async_select_option / async_select_source: the statement after it runs
\* only when the call returned; an exception leaves the method.
CurrentAfter(p, oc, in_id) ==
    IF p \in Entities /\ oc = "ok"
    THEN [current EXCEPT ![p] = InputLabel(in_id)]
    ELSE current

\* async_select_option(option) / async_select_source(source) of entity e: an
\* option that is not in the mapping is logged and the method returns;
\* otherwise switch_route(self._output_id, in_id) is awaited.
SelectOption(e, option) ==
    /\ rpc[e].at = "idle"
    /\ IF option \in Options
       THEN RStart(e, OutputIdOf(e), InputOf(option))
       ELSE /\ rresult' = [rresult EXCEPT ![e] = "unknown_option"]
            /\ UNCHANGED <<rpc, rconn, rsent, current, clientVars, parseVars>>

\* open_connection returns: the payload is written and drain awaited.
RConnectOk(p) ==
    /\ rpc[p].at = "connecting"
    /\ rpc' = [rpc EXCEPT ![p].at = "drain"]
    /\ rconn' = [rconn EXCEPT ![p] = "open"]
    /\ rsent' = [rsent EXCEPT ![p] = Append(@, RegPayload(rpc[p].command))]
    /\ UNCHANGED <<rresult, current, clientVars, parseVars>>

\* open_connection raises OSError: logged and raised again.
RConnectFail(p) ==
    /\ rpc[p].at = "connecting"
    /\ rpc' = [rpc EXCEPT ![p] = RIdle]
    /\ rconn' = [rconn EXCEPT ![p] = "none"]
    /\ rresult' = [rresult EXCEPT ![p] = "error"]
    /\ UNCHANGED <<rsent, current, clientVars, parseVars>>

\* writer.drain() returns: readline is awaited for at most 0.5 s.
RDrainDone(p) ==
    /\ rpc[p].at = "drain"
    /\ rpc' = [rpc EXCEPT ![p].at = "readline"]
    /\ UNCHANGED <<rconn, rresult, current, rsent, clientVars, parseVars>>

\* The finally clause: writer.close() is issued and wait_closed awaited.
RClosing(p, oc) ==
    /\ rpc' = [rpc EXCEPT ![p].at = "wait_closed", ![p].oc = oc]
    /\ rconn' = [rconn EXCEPT ![p] = "closing"]
    /\ UNCHANGED <<rresult, current, rsent, clientVars, parseVars>>

\* readline returns r, or the 0.5 s timeout is caught: the reply is logged
\* and the finally clause starts.
RReadDone(p, r) ==
    /\ rpc[p].at = "readline"
    /\ rpc' = [rpc EXCEPT ![p].at = "wait_closed", ![p].oc = "ok",
                          ![p].reply = r]
    /\ rconn' = [rconn EXCEPT ![p] = "closing"]
    /\ UNCHANGED <<rresult, current, rsent, clientVars, parseVars>>

\* drain or readline raises (connection reset).
RIOError(p) ==
    /\ rpc[p].at \in {"drain", "readline"}
    /\ RClosing(p, "error")

\* The event loop completes the close that writer.close() scheduled.
RLoopClose(p) ==
    /\ rconn[p] = "closing"
    /\ rconn' = [rconn EXCEPT ![p] = "closed"]
    /\ UNCHANGED <<rpc, rresult, current, rsent, clientVars, parseVars>>

\* wait_closed returns: _send_command returns or raises what the try raised.
RExit(p) ==
    /\ rpc[p].at = "wait_closed"
    /\ rconn[p] = "closed"
    /\ rresult' = [rresult EXCEPT ![p] = rpc[p].oc]
    /\ current' = CurrentAfter(p, rpc[p].oc, rpc[p].args[2])
    /\ rpc' = [rpc EXCEPT ![p] = RIdle]
    /\ UNCHANGED <<rconn, rsent, clientVars, parseVars>>

\* wait_closed raises the error the connection was lost with (not
\* suppressed here).
RExitError(p) ==
    /\ rpc[p].at = "wait_closed"
    /\ rpc[p].oc = "error"
    /\ rconn[p] = "closed"
    /\ rresult' = [rresult EXCEPT ![p] = "error"]
    /\ rpc' = [rpc EXCEPT ![p] = RIdle]
    /\ UNCHANGED <<rconn, rsent, current, clientVars, parseVars>>

\* The caller's task is cancelled at the await it is suspended in.
RCancel(p) ==
    \/ /\ rpc[p].at = "connecting"
       /\ rpc' = [rpc EXCEPT ![p] = RIdle]
       /\ rconn' = [rconn EXCEPT ![p] = "none"]
       /\ rresult' = [rresult EXCEPT ![p] = "cancelled"]
       /\ UNCHANGED <<rsent, current, clientVars, parseVars>>
    \/ /\ rpc[p].at \in {"drain", "readline"}
       /\ RClosing(p, "cancelled")
    \/ /\ rpc[p].at = "wait_closed"
       /\ rconn[p] = "closed"
       /\ rpc' = [rpc EXCEPT ![p] = RIdle]
       /\ rresult' = [rresult EXCEPT ![p] = "cancelled"]
       /\ UNCHANGED <<rconn, rsent, current, clientVars, parseVars>>

\* ------------------------------------------------------------ parser runs
\* Lines a response text is drawn from.
ParseLines ==
    { Line("OUT", o, "FROM", "IN", v) :
        o \in {<<"0", "0", "1">>, <<"0", "0", "2">>},
        v \in {<<"0", "0", "1">>, <<"0", "0", "2">>, <<"AUTO">>, <<"auto">>,
               <<"0", "0", "0">>} }
    \cup
    { Line("Output", <<"0", "0", "1">>, "From", "Input", <<"0", "0", "2">>),
      Line("OUTPUT", <<"2">>, "FROM", "INPUT", <<"Auto">>),
      Line("OUT", <<"0", "0", "0">>, "FR", "IN", <<"0", "0", "1">>),
      Line("OUT", <<"1">>, "FR", "IN", <<"AUTO">>)
        \o <<" ">> \o Line("OUTPUT", <<"2">>, "FROM", "INPUT", <<"1">>),
      Line("OUT", <<"1">>, "FR", "IN", <<"2">>)
        \o <<" ">> \o Line("OUTPUT", <<"1">>, "FROM", "INPUT", <<"AUTO">>),
      Line("OUT", <<"1">>, "FR", "IN", <<"2">>)
        \o <<" ">> \o Line("OUTPUT", <<"2">>, "FROM", "INPUT", <<"1">>),
      <<"X", " ", "1">>,
      <<" ">>,
      <<"ACM200", ">">> }

\* Texts of at most n lines.
RECURSIVE TextsUpTo(_)
TextsUpTo(n) ==
    IF n = 0 THEN {<<>>}
    ELSE TextsUpTo(n - 1)
         \cup {Append(t, l) : t \in {u \in TextsUpTo(n - 1) : Len(u) = n - 1},
                              l \in ParseLines}

\* _parse_routes(text) is called.
Parse ==
    /\ ~parseDone
    /\ parseDone' = TRUE
    /\ parsed' = ParseRoutes(text)
    /\ UNCHANGED <<text, unitVars, clientVars, regVars>>

\* ------------------------------------------------------------ _read_until_prompt
\* Tokens the peer sends: a word, a blank, the prompt in two spellings.
ReadTokens == {"x", " ", "ACM200>", "acm200>"}

\* What reader.read(1024) may return: a non-empty chunk of at most MaxChunk
\* tokens.
RECURSIVE ChunksUpTo(_)
ChunksUpTo(n) ==
    IF n = 0 THEN {<<>>}
    ELSE ChunksUpTo(n - 1)
         \cup {Append(c, t) : c \in {u \in ChunksUpTo(n - 1) : Len(u) = n - 1},
                              t \in ReadTokens}

Chunks == ChunksUpTo(MaxChunk) \ {<<>>}

\* Index of the last token of b before its trailing whitespace (0 if none):
\* where "\s*$" starts.
RECURSIVE LastNonBlank(_, _)
LastNonBlank(b, i) ==
    IF i = 0 THEN 0
    ELSE IF b[i] = " " THEN LastNonBlank(b, i - 1)
    ELSE i

\* PROMPT_RE.search(text): "\bACM200>\s*$" with re.IGNORECASE.
PROMPT_RE(b) ==
    LET j == LastNonBlank(b, Len(b))
    IN  /\ j >= 1
        /\ b[j] \in {"ACM200>", "acm200>"}
        /\ j = 1 \/ b[j - 1] # "x"

IdleRead == [at |-> "idle", buf |-> <<>>, ret |-> <<>>, why |-> "none"]

\* _read_until_prompt returns buf.decode(): why tells which exit was taken.
Returned(b, why) == [at |-> "returned", buf |-> b, ret |-> b, why |-> why]

\* An exception leaves _read_until_prompt.
Raised(b, why) == [at |-> "raised", buf |-> b, ret |-> <<>>, why |-> why]

\* _read_until_prompt is called: buf = bytearray(), and "while len(buf) <
\* max_bytes" lets the first read start.
ReadStart ==
    /\ rd.at = "idle"
    /\ rd' = IF 0 < MaxBytes THEN [IdleRead EXCEPT !.at = "reading"]
             ELSE Returned(<<>>, "max")
    /\ UNCHANGED <<text, parsed, parseDone, bulkVars, labelVars, coordVars,
                   setupVars, clientVars, regVars>>

\* reader.read returns the chunk c: it is appended; the prompt at the end
\* breaks the loop, and so does the while condition once buf is full.
ReadChunk(c) ==
    /\ rd.at = "reading"
    /\ LET b == rd.buf \o c
       IN  rd' = IF PROMPT_RE(b) THEN Returned(b, "prompt")
                 ELSE IF ~(Len(b) < MaxBytes) THEN Returned(b, "max")
                 ELSE [rd EXCEPT !.buf = b]
    /\ UNCHANGED <<text, parsed, parseDone, bulkVars, labelVars, coordVars,
                   setupVars, clientVars, regVars>>

\* reader.read returns b"": "if not chunk: break".
ReadEOF ==
    /\ rd.at = "reading"
    /\ rd' = Returned(rd.buf, "eof")
    /\ UNCHANGED <<text, parsed, parseDone, bulkVars, labelVars, coordVars,
                   setupVars, clientVars, regVars>>

\* asyncio.TimeoutError leaves the function instead of being passed over.
ReadTimeoutRaises ==
    /\ rd.at = "reading"
    /\ rd' = Raised(rd.buf, "timeout")
    /\ UNCHANGED <<text, parsed, parseDone, bulkVars, labelVars, coordVars,
                   setupVars, clientVars, regVars>>

\* wait_for raises asyncio.TimeoutError: "except asyncio.TimeoutError: pass".
ReadTimeout ==
    /\ rd.at = "reading"
    /\ rd' = Returned(rd.buf, "timeout")
    /\ UNCHANGED <<text, parsed, parseDone, bulkVars, labelVars, coordVars,
                   setupVars, clientVars, regVars>>

\* reader.read raises (connection reset): not caught here.
ReadError ==
    /\ rd.at = "reading"
    /\ rd' = Raised(rd.buf, "error")
    /\ UNCHANGED <<text, parsed, parseDone, bulkVars, labelVars, coordVars,
                   setupVars, clientVars, regVars>>

\* The task is cancelled while it awaits the read.
ReadCancel ==
    /\ rd.at = "reading"
    /\ rd' = Raised(rd.buf, "cancelled")
    /\ UNCHANGED <<text, parsed, parseDone, bulkVars, labelVars, coordVars,
                   setupVars, clientVars, regVars>>

\* One await of the loop ends: wait_for gives a chunk, EOF or the timeout.
ReadAwait ==
    \/ \E c \in Chunks : ReadChunk(c)
    \/ ReadEOF
    \/ ReadTimeout

\* ------------------------------------------------------------ input labels
\* Friendly names a user may give an input: none, a name, the name with a
\* trailing blank, the name with a counter, the default label of input 1.
FriendlyNames ==
    { <<>>,
      <<"A">>,
      <<"A", " ">>,
      <<"A", " ", "(", "2", ")">>,
      <<"Input", " ", "1">> }

\* input_names for num_inputs = n inputs, n up to MaxLabels.
InputNames == UNION {[1..n -> FriendlyNames] : n \in 1..MaxLabels}

\* raw_labels: the stripped friendly name, or "Input {in_id}" without one.
RawLabels(names) ==
    [in_id \in 1..Len(names) |->
        IF StripLine(names[in_id]) # <<>> THEN StripLine(names[in_id])
        ELSE InputLabel(in_id)]

\* f"{label} ({n})"
Numbered(label, n) == label \o <<" ", "(">> \o DecStr(n) \o <<")">>

\* The loop of _make_unique_labels from label i on: seen counts the raw
\* labels met so far, out is the list built so far.
RECURSIVE UniqueFrom(_, _, _, _)
UniqueFrom(labels, i, seen, out) ==
    IF i > Len(labels) THEN out
    ELSE LET label == labels[i]
         IN  IF label \notin DOMAIN seen
             THEN UniqueFrom(labels, i + 1, Put(seen, label, 1),
                             Append(out, label))
             ELSE UniqueFrom(labels, i + 1, Put(seen, label, seen[label] + 1),
                             Append(out, Numbered(label, seen[label] + 1)))

\* _make_unique_labels(labels)
MakeUniqueLabels(labels) == UniqueFrom(labels, 1, <<>>, <<>>)

\* The label -> input id dict: a later entry of the list replaces an earlier
\* one with the same label.
LabelMap(labels) ==
    [label \in {labels[i] : i \in 1..Len(labels)} |->
        Max({i \in 1..Len(labels) : labels[i] = label})]

NoLabels == [names |-> <<>>, built |-> FALSE, options |-> <<>>, inputs |-> <<>>]

\* The entity is constructed (ACM200OutputSelect and ACM200OutputMediaPlayer
\* build their labels the same way).
BuildLabels ==
    /\ ~lb.built
    /\ LET labels == MakeUniqueLabels(RawLabels(lb.names))
       IN  lb' = [lb EXCEPT !.built = TRUE, !.options = labels,
                            !.inputs = LabelMap(labels)]
    /\ UNCHANGED <<rd, bulkVars, coordVars, setupVars, text, parsed, parseDone,
                   clientVars, regVars>>

\* ------------------------------------------------------------ coordinator
\* const.py
DEFAULT_POLL_INTERVAL == 5

\* poll_interval and num_outputs values an entry may be configured with.
PollIntervals == (0 - MaxPoll)..MaxPoll

\* max(2, int(poll_interval)) without the floor.
UpdateIntervalNoFloor(poll_interval) == poll_interval

\* The seconds of update_interval: max(2, int(poll_interval)).
UpdateInterval(poll_interval) == IF poll_interval > 2 THEN poll_interval ELSE 2

NoCoordinator ==
    [poll_interval |-> DEFAULT_POLL_INTERVAL, num_outputs |-> NumOutputs,
     made |-> FALSE, update_interval |-> 0]

\* ACM200Coordinator.__init__
CoordinatorInit ==
    /\ ~co.made
    /\ co' = [co EXCEPT !.made = TRUE,
                        !.update_interval = UpdateInterval(co.poll_interval)]
    /\ UNCHANGED <<rd, bulkVars, labelVars, setupVars, text, parsed, parseDone,
                   clientVars, regVars>>

\* ------------------------------------------------------------ setup and unload
\* Config entries: two with a host and one whose data has no host.
Entries == {"e1", "e2", "e3"}

\* entry.data.get(CONF_HOST)
HostOf(e) == IF e = "e3" THEN "" ELSE "acm200"

\* call.data.get("entry_id"): absent or empty (""), a configured entry, or
\* an id no entry has.
CallEntryIds == {"", "e1", "e2", "e9"}

NoClient == "none"

\* {"clients": {}, "service_registered": False}
EmptyDomainData == [clients |-> <<>>, service_registered |-> FALSE]

IdleService ==
    [at |-> "idle", called |-> FALSE, entry_id |-> "", client |-> NoClient,
     output |-> 0, input |-> 0]

\* The keys of the clients dict.
ClientIds(dd) == {dd.clients[k] : k \in 1..Len(dd.clients)}

\* clients[entry.entry_id] = client: a new key goes last, a key already
\* there keeps its place.
StoreClient(clients, e) ==
    IF \E k \in 1..Len(clients) : clients[k] = e THEN clients
    ELSE Append(clients, e)

\* clients.pop(entry.entry_id, None)
RECURSIVE PopClient(_, _)
PopClient(clients, e) ==
    IF clients = <<>> THEN <<>>
    ELSE IF Head(clients) = e THEN PopClient(Tail(clients), e)
    ELSE <<Head(clients)>> \o PopClient(Tail(clients), e)

\* async_setup_entry up to the forwarding to the platforms, registering the
\* service whatever service_registered says.
SetupEntryRegistersAgain(e) ==
    /\ entryAt[e] \in {"not_loaded", "unloaded", "setup_error"}
    /\ IF HostOf(e) = ""
       THEN /\ entryAt' = [entryAt EXCEPT ![e] = "setup_error"]
            /\ UNCHANGED <<domain_data, services>>
       ELSE /\ domain_data' =
                  [clients |-> StoreClient(domain_data.clients, e),
                   service_registered |-> TRUE]
            /\ services' = services + 1
            /\ entryAt' = [entryAt EXCEPT ![e] = "forwarding"]
    /\ UNCHANGED <<svc, rd, bulkVars, labelVars, coordVars, text, parsed,
                   parseDone, clientVars, regVars>>

\* async_setup_entry up to the forwarding to the platforms: without a host
\* it returns False; otherwise the client is stored and the service is
\* registered unless service_registered says it is.
SetupEntry(e) ==
    /\ entryAt[e] \in {"not_loaded", "unloaded", "setup_error"}
    /\ IF HostOf(e) = ""
       THEN /\ entryAt' = [entryAt EXCEPT ![e] = "setup_error"]
            /\ UNCHANGED <<domain_data, services>>
       ELSE /\ domain_data' =
                  [clients |-> StoreClient(domain_data.clients, e),
                   service_registered |-> TRUE]
            /\ services' = IF domain_data.service_registered THEN services
                           ELSE services + 1
            /\ entryAt' = [entryAt EXCEPT ![e] = "forwarding"]
    /\ UNCHANGED <<svc, rd, bulkVars, labelVars, coordVars, text, parsed,
                   parseDone, clientVars, regVars>>

\* async_forward_entry_setups returns: async_setup_entry returns True.
ForwardDone(e) ==
    /\ entryAt[e] = "forwarding"
    /\ entryAt' = [entryAt EXCEPT ![e] = "loaded"]
    /\ UNCHANGED <<domain_data, services, svc, rd, bulkVars, labelVars,
                   coordVars, text, parsed, parseDone, clientVars, regVars>>

\* async_forward_entry_setups raises: async_setup_entry raises with the
\* client stored and the service registered.
ForwardFails(e) ==
    /\ entryAt[e] = "forwarding"
    /\ entryAt' = [entryAt EXCEPT ![e] = "setup_error"]
    /\ UNCHANGED <<domain_data, services, svc, rd, bulkVars, labelVars,
                   coordVars, text, parsed, parseDone, clientVars, regVars>>

\* async_unload_entry is called and awaits async_unload_platforms.
UnloadEntry(e) ==
    /\ entryAt[e] = "loaded"
    /\ entryAt' = [entryAt EXCEPT ![e] = "unloading"]
    /\ UNCHANGED <<domain_data, services, svc, rd, bulkVars, labelVars,
                   coordVars, text, parsed, parseDone, clientVars, regVars>>

\* async_unload_platforms returned unload_ok: the client is popped, and with
\* no client left the service is removed; unload_ok is returned.
UnloadDone(e, unload_ok) ==
    /\ entryAt[e] = "unloading"
    /\ LET clients == PopClient(domain_data.clients, e)
       IN  IF clients = <<>> /\ domain_data.service_registered
           THEN /\ services' = 0
                /\ domain_data' = [clients |-> clients,
                                   service_registered |-> FALSE]
           ELSE /\ services' = services
                /\ domain_data' = [domain_data EXCEPT !.clients = clients]
    /\ entryAt' = [entryAt EXCEPT ![e] =
                      IF unload_ok THEN "unloaded" ELSE "failed_unload"]
    /\ UNCHANGED <<svc, rd, bulkVars, labelVars, coordVars, text, parsed,
                   parseDone, clientVars, regVars>>

\* The client handle_switch_route picks: the one of entry_id when that is
\* given, the first of the dict otherwise; None when there is none.
ServiceClient(dd, entry_id) ==
    IF entry_id # ""
    THEN IF entry_id \in ClientIds(dd) THEN entry_id ELSE NoClient
    ELSE IF dd.clients = <<>> THEN NoClient ELSE Head(dd.clients)

\* handle_switch_route is called and looks its client up: without one it
\* logs an error and returns.
ServiceCall(entry_id, output, input_) ==
    /\ services > 0
    /\ svc.at = "idle"
    /\ rpc["service"].at = "idle"
    /\ LET svc_client == ServiceClient(domain_data, entry_id)
       IN  svc' = [at |-> IF svc_client = NoClient THEN "idle" ELSE "found",
                   called |-> TRUE, entry_id |-> entry_id,
                   client |-> svc_client, output |-> output, input |-> input_]
    /\ rsent' = [rsent EXCEPT !["service"] = <<>>]
    /\ rresult' = [rresult EXCEPT !["service"] = "none"]
    /\ UNCHANGED <<rpc, rconn, current, entryAt, domain_data, services, rd,
                   bulkVars, labelVars, coordVars, text, parsed, parseDone,
                   clientVars>>

\* await svc_client.switch_route(output, input_)
ServiceSwitch ==
    /\ svc.at = "found"
    /\ rresult["service"] = "none"
    /\ RStart("service", svc.output, svc.input)

\* switch_route has returned or raised: so does the handler.
ServiceReturn ==
    /\ svc.at = "found"
    /\ rpc["service"].at = "idle"
    /\ rresult["service"] \notin {"none", "pending"}
    /\ svc' = [svc EXCEPT !.at = "idle"]
    /\ UNCHANGED <<entryAt, domain_data, services, rd, bulkVars, labelVars,
                   coordVars, text, parsed, parseDone, clientVars, regVars>>

\* ------------------------------------------------------------ get_routes_bulk twice
\* The device fails the command (the connection is refused or reset).
Fails == [fails |-> TRUE, text |-> <<>>]

\* What a device does with one command: it answers one of the status texts,
\* or fails it.
Answers == {[fails |-> FALSE, text |-> t] : t \in Responses} \cup {Fails}

\* Devices that treat each bulk spelling the same way every time.
Fixtures == [1..Len(BulkCmds) -> Answers]

\* What _send_and_read(command) gives on device f: the text, or an exception.
SendAndRead(f, command) ==
    LET a == f[CHOOSE i \in 1..Len(BulkCmds) : BulkCmds[i] = command]
    IN  IF a.fails THEN [k |-> "exc", text |-> <<>>, replied |-> FALSE]
        ELSE [k |-> "ok", text |-> a.text, replied |-> TRUE]

NoCall == [routes |-> EmptyRoutes, cmds |-> <<>>]

IdleBulk ==
    [at |-> "idle", n |-> 0, pl |-> IdlePoll, cmds |-> <<>>,
     calls |-> <<NoCall, NoCall>>]

\* get_routes_bulk resumes at the spelling the previous call ended with.
BulkCallResumes ==
    /\ gb.at = "idle"
    /\ gb.n < 2
    /\ gb' = [gb EXCEPT !.at = "running",
                        !.pl = [IdlePoll EXCEPT !.phase = "bulk",
                                                !.idx = IF gb.pl.idx = 0 THEN 1
                                                        ELSE gb.pl.idx],
                        !.cmds = <<>>]
    /\ UNCHANGED <<fixture, rd, labelVars, coordVars, setupVars, text, parsed,
                   parseDone, clientVars, regVars>>

\* get_routes_bulk is called: the loop starts at the first spelling.
BulkCall ==
    /\ gb.at = "idle"
    /\ gb.n < 2
    /\ gb' = [gb EXCEPT !.at = "running",
                        !.pl = [IdlePoll EXCEPT !.phase = "bulk", !.idx = 1],
                        !.cmds = <<>>]
    /\ UNCHANGED <<fixture, rd, labelVars, coordVars, setupVars, text, parsed,
                   parseDone, clientVars, regVars>>

\* One turn of the loop: the spelling is sent, the device answers as it
\* always does, and the loop goes on or get_routes_bulk returns.
BulkTurn ==
    /\ gb.at = "running"
    /\ LET command == CurCmd(gb.pl)
           oc == SendAndRead(fixture, command)
           pl == PollAfter(gb.pl, oc, ParsedResponse(oc.text))
           sentNow == Append(gb.cmds, command)
       IN  gb' = IF pl.phase = "bulk"
                 THEN [gb EXCEPT !.pl = pl, !.cmds = sentNow]
                 ELSE [gb EXCEPT !.at = "idle", !.n = @ + 1, !.cmds = <<>>,
                                 !.pl = [IdlePoll EXCEPT !.idx = gb.pl.idx],
                                 !.calls[gb.n + 1] =
                                     [routes |-> pl.bulk, cmds |-> sentNow]]
    /\ UNCHANGED <<fixture, rd, labelVars, coordVars, setupVars, text, parsed,
                   parseDone, clientVars, regVars>>

\* ------------------------------------------------------------ specifications
InitClient ==
    /\ pc = [p \in Procs |-> "idle"]
    /\ lock = NoProc
    /\ waiters = <<>>
    /\ conn = [p \in Procs |-> "none"]
    /\ cmd = [p \in Procs |-> <<>>]
    /\ outcome = [p \in Procs |-> NoOutcome]
    /\ result = [p \in Switchers |-> "none"]
    /\ args = [p \in Switchers |-> NoArgs]
    /\ sent = [p \in Procs |-> <<>>]
    /\ poll = IdlePoll
    /\ lastUpdate = "none"
    /\ hist = "none"

InitReg ==
    /\ rpc = [p \in RegProcs |-> RIdle]
    /\ rconn = [p \in RegProcs |-> "none"]
    /\ rresult = [p \in RegProcs |-> "none"]
    /\ rsent = [p \in RegProcs |-> <<>>]
    /\ current = [e \in Entities |-> NoOption]

\* hass.data[DOMAIN] after async_setup, no entry set up yet.
InitSetup ==
    /\ entryAt = [e \in Entries |-> "not_loaded"]
    /\ domain_data = EmptyDomainData
    /\ services = 0
    /\ svc = IdleService

InitUnit ==
    /\ rd = IdleRead
    /\ fixture = [i \in 1..Len(BulkCmds) |-> Fails]
    /\ gb = IdleBulk
    /\ lb = NoLabels
    /\ co = NoCoordinator
    /\ InitSetup

InitParse ==
    /\ text = <<>>
    /\ parsed = EmptyRoutes
    /\ parseDone = FALSE
    /\ InitUnit

Init == InitClient /\ InitReg /\ InitParse

\* What the program does by itself once a command execution has started.
Step(p) ==
    \/ Wake(p)
    \/ BannerDone(p)
    \/ \E t \in RepliesTo(p) : ReadDone(p, t)
    \/ LoopClose(p)
    \/ ExitExec(p)

\* What the callers and the device decide.
Env(p) ==
    \/ ConnectOk(p)
    \/ ConnectFail(p)
    \/ IOError(p)
    \/ CancelWaiting(p)
    \/ CancelConnecting(p)
    \/ CancelIO(p)
    \/ CancelWaitClosed(p)

Next ==
    \/ \E p \in Switchers, o \in ArgIds, i \in InputArgIds : StartSwitch(p, o, i)
    \/ StartPoll
    \/ \E p \in Procs : Step(p)
    \/ \E p \in Procs : Env(p)

\* One client.py ACM200Client, its poller and two switch_route callers.
Spec == Init /\ [][Next]_vars

\* The same, where the event loop keeps running every task that can go on:
\* timeouts fire and closes complete.  Nothing obliges the callers to call,
\* the device to answer a connection attempt, or an error to happen.
SpecFair == Spec /\ \A p \in Procs : WF_vars(Step(p))

\* The same with a device that accepts no connection: every attempt fails.
NextDown ==
    \/ \E p \in Switchers, o \in ArgIds, i \in InputArgIds : StartSwitch(p, o, i)
    \/ StartPoll
    \/ \E p \in Procs :
        \/ Wake(p)
        \/ ConnectFail(p)
        \/ CancelWaiting(p)
        \/ CancelConnecting(p)

SpecDown == Init /\ [][NextDown]_vars

NextReg ==
    \/ \E p \in RegProcs, o \in ArgIds, i \in ArgIds : RStart(p, o, i)
    \/ \E p \in RegProcs :
        \/ RConnectOk(p)
        \/ RConnectFail(p)
        \/ RDrainDone(p)
        \/ \E r \in RegReplies : RReadDone(p, r)
        \/ RIOError(p)
        \/ RLoopClose(p)
        \/ RExit(p)
        \/ RExitError(p)
        \/ RCancel(p)

\* The __init__.py ACM200Client of one config entry and its callers.
SpecReg == Init /\ [][NextReg]_vars

NextEntity ==
    \/ \E e \in Entities, option \in CalledOptions : SelectOption(e, option)
    \/ \E e \in Entities :
        \/ RConnectOk(e)
        \/ RConnectFail(e)
        \/ RDrainDone(e)
        \/ \E r \in RegReplies : RReadDone(e, r)
        \/ RIOError(e)
        \/ RLoopClose(e)
        \/ RExit(e)
        \/ RExitError(e)
        \/ RCancel(e)

\* The select entity and the media_player entity of one config entry, asked
\* for options of their list and for an unknown one.
SpecEntity == Init /\ [][NextEntity]_vars

\* Ids switch_route is called with: invalid, the smallest, one to three
\* digits, and one that three digits cannot hold.
SwitchIds == {0, 2, 5, 345, 1000}

NextSwitch ==
    \/ \E o \in SwitchIds, i \in SwitchIds : StartSwitch("sw1", o, i)
    \/ ConnectOk("sw1")
    \/ ConnectFail("sw1")
    \/ BannerDone("sw1")
    \/ \E t \in SwitchReplies : ReadDone("sw1", t)
    \/ IOError("sw1")
    \/ CancelConnecting("sw1")
    \/ CancelIO("sw1")
    \/ CancelWaitClosed("sw1")
    \/ LoopClose("sw1")
    \/ ExitExec("sw1")
    \/ \E o \in SwitchIds, i \in SwitchIds : RStart("service", o, i)
    \/ RConnectOk("service")
    \/ RConnectFail("service")
    \/ RDrainDone("service")
    \/ \E r \in RegReplies : RReadDone("service", r)
    \/ RIOError("service")
    \/ RCancel("service")
    \/ RLoopClose("service")
    \/ RExit("service")
    \/ RExitError("service")

\* switch_route of each client called by one caller at a time, with ids of
\* every width.
SpecSwitch == Init /\ [][NextSwitch]_vars

\* _parse_routes applied to every text of at most MaxLines lines.
InitTexts ==
    /\ InitClient
    /\ InitReg
    /\ text \in TextsUpTo(MaxLines)
    /\ parsed = EmptyRoutes
    /\ parseDone = FALSE
    /\ InitUnit

NextParse == Parse

SpecParse == InitTexts /\ [][NextParse]_vars

NextRead ==
    \/ ReadStart
    \/ ReadAwait
    \/ ReadError
    \/ ReadCancel

\* One call of _read_until_prompt against a peer that sends any chunks.
SpecRead == Init /\ [][NextRead]_vars

\* The same, where every wait_for ends: with a chunk, EOF, or the timeout
\* at the latest.
SpecReadFair == SpecRead /\ WF_vars(ReadAwait)

InitBulk ==
    /\ InitClient
    /\ InitReg
    /\ text = <<>>
    /\ parsed = EmptyRoutes
    /\ parseDone = FALSE
    /\ rd = IdleRead
    /\ fixture \in Fixtures
    /\ gb = IdleBulk
    /\ lb = NoLabels
    /\ co = NoCoordinator
    /\ InitSetup

InitLabels ==
    /\ InitClient
    /\ InitReg
    /\ text = <<>>
    /\ parsed = EmptyRoutes
    /\ parseDone = FALSE
    /\ rd = IdleRead
    /\ fixture = [i \in 1..Len(BulkCmds) |-> Fails]
    /\ gb = IdleBulk
    /\ lb \in {[NoLabels EXCEPT !.names = n] : n \in InputNames}
    /\ co = NoCoordinator
    /\ InitSetup

NextLabels == BuildLabels

\* An entity is constructed for each configuration of input names.
SpecLabels == InitLabels /\ [][NextLabels]_vars

InitCoord ==
    /\ InitClient
    /\ InitReg
    /\ text = <<>>
    /\ parsed = EmptyRoutes
    /\ parseDone = FALSE
    /\ rd = IdleRead
    /\ fixture = [i \in 1..Len(BulkCmds) |-> Fails]
    /\ gb = IdleBulk
    /\ lb = NoLabels
    /\ co \in {[NoCoordinator EXCEPT !.poll_interval = p, !.num_outputs = n] :
                  p \in PollIntervals, n \in 0..NumOutputs}
    /\ InitSetup

NextCoord == CoordinatorInit

\* A coordinator is constructed for each configured poll_interval.
SpecCoord == InitCoord /\ [][NextCoord]_vars

NextSetup ==
    \/ \E e \in Entries :
        \/ SetupEntry(e)
        \/ ForwardDone(e)
        \/ ForwardFails(e)
        \/ UnloadEntry(e)
        \/ \E unload_ok \in BOOLEAN : UnloadDone(e, unload_ok)
    \/ \E entry_id \in CallEntryIds, o \in InputArgIds, i \in InputArgIds :
          ServiceCall(entry_id, o, i)
    \/ ServiceSwitch
    \/ ServiceReturn
    \/ RConnectOk("service")
    \/ RConnectFail("service")
    \/ RDrainDone("service")
    \/ \E r \in RegReplies : RReadDone("service", r)
    \/ RIOError("service")
    \/ RCancel("service")
    \/ RLoopClose("service")
    \/ RExit("service")
    \/ RExitError("service")

\* Config entries set up and unloaded in any order, and the switch_route
\* service called while it is registered.
SpecSetup == Init /\ [][NextSetup]_vars

NextBulk ==
    \/ BulkCall
    \/ BulkTurn

\* get_routes_bulk called twice, one call after the other, on each device
\* that answers each spelling the same way every time.
SpecBulk == InitBulk /\ [][NextBulk]_vars

\* ------------------------------------------------------------ properties
\* Task p is inside "async with self._lock" of _send_and_read.
InExec(p) == pc[p] \in {"connecting", "banner", "read", "wait_closed"}

\* Task p writes its command line in this step.
Writes(p) == sent'[p] # sent[p] /\ sent'[p] # <<>>

\* C1: for one client.py ACM200Client, at most one TCP connection exists at
\* any time: a connection is being established, established or closing for at
\* most one task, and only for the task that holds the lock.
C1_OneConnectionAtATime ==
    \A p \in Procs :
        conn[p] \in Live => /\ lock = p
                            /\ \A q \in Procs \ {p} : conn[q] \notin Live

\* A call queues for the lock while another call's connection is closing.
C1_Witness_QueuedBehindClosing ==
    \E p \in Procs, q \in Procs :
        p # q /\ conn[p] = "closing" /\ pc[q] = "waiting"

\* C2 (as stated): no switch_route command is written between the first and
\* the last command of one poll cycle: once a switch command was written
\* after a command of the running cycle, the cycle writes no further command.
C2_NoSwitchInsidePollCycle ==
    [][~(hist = "switch" /\ Writes(Poller))]_vars

\* C2 (amended): a switch_route command and a poll command never overlap on
\* the wire: whenever a task writes its command line, no other task has a
\* connection, before or after the write.
C2_WritesNeverOverlap ==
    [][\A p \in Procs :
          Writes(p) => \A q \in Procs \ {p} :
                          conn[q] \notin Live /\ conn'[q] \notin Live]_vars

\* A switch command was written after a command of the running poll cycle,
\* and the cycle has the connection of its next command open.
C2_Witness_SwitchBetweenPollCommands ==
    /\ hist = "switch"
    /\ pc[Poller] = "banner"
    /\ poll.phase \in {"bulk", "fallback"}

\* C3: the switch commands issued through the registry client are mutually
\* exclusive: no two of its callers have a connection at the same time.
C3_RegistryOneConnection ==
    \A p \in RegProcs, q \in RegProcs :
        (rconn[p] \in Live /\ rconn[q] \in Live) => p = q

\* C4: with a device that accepts no connection, no poll cycle ends by
\* returning a snapshot.
C4_DownDeviceNoSnapshot == lastUpdate # "ok"

\* The outputs of 1..NumOutputs from o on that routes does not hold, ascending.
RECURSIVE MissingFrom(_, _)
MissingFrom(routes, o) ==
    IF o > NumOutputs THEN <<>>
    ELSE IF o \in DOMAIN routes THEN MissingFrom(routes, o + 1)
    ELSE <<o>> \o MissingFrom(routes, o + 1)

\* C5: when a poll cycle has ended with a snapshot, get_route_for_output was
\* called exactly once for each output of 1..NumOutputs missing from the bulk
\* result, in ascending order, and for no other output; the snapshot keeps
\* every value of the bulk result.
C5_EachMissingOutputQueriedOnce ==
    (lastUpdate = "ok" /\ poll.bulkDone) =>
        /\ poll.queried = MissingFrom(poll.bulk, 1)
        /\ \A o \in DOMAIN poll.bulk :
              o \in DOMAIN poll.routes /\ poll.routes[o] = poll.bulk[o]

\* rx.search of pattern r on line n of text, the line stripped.
MatchAt(txt, n, r) == Search(ROUTE_RE_LIST[r], StripLine(txt[n]))

\* The (line, pattern) pairs of text whose match is for output o with the
\* input token AUTO.
AutoMatches(txt, o) ==
    {x \in (1..Len(txt)) \X (1..Len(ROUTE_RE_LIST)) :
        LET m == MatchAt(txt, x[1], x[2])
        IN  m.ok /\ IntOf(m.g1) = o /\ Upper(m.g2[1]) = "AUTO"}

\* The (line, pattern) pairs of text whose match gives output o >= 1 a
\* numeric input >= 1.
NumericMatches(txt, o) ==
    {x \in (1..Len(txt)) \X (1..Len(ROUTE_RE_LIST)) :
        LET m == MatchAt(txt, x[1], x[2])
        IN  /\ m.ok
            /\ Upper(m.g2[1]) # "AUTO"
            /\ IntOf(m.g1) = o
            /\ o > 0
            /\ IntOf(m.g2) > 0}

\* x comes after every other pair of S (lines in order, then patterns).
IsLast(x, S) ==
    \A y \in S : y[1] < x[1] \/ (y[1] = x[1] /\ y[2] <= x[2])

\* Output numbers a line of ParseLines can name.
OutputIds == 0..3

\* C6 (as stated): an output for which some line matches with the input token
\* AUTO is not a key of the _parse_routes result.
C6_AutoOutputAbsent ==
    parseDone =>
        \A o \in OutputIds : AutoMatches(text, o) # {} => o \notin DOMAIN parsed

\* C6 (amended): a match with the input token AUTO adds nothing to the
\* result: o is a key exactly when some match gives o a numeric input, its
\* value the input of the last such match, never an AUTO.
C6_AutoAddsNothing ==
    parseDone =>
        /\ DOMAIN parsed \subseteq OutputIds
        /\ \A o \in OutputIds :
              /\ o \in DOMAIN parsed <=> NumericMatches(text, o) # {}
              /\ o \in DOMAIN parsed =>
                    \E x \in NumericMatches(text, o) :
                        /\ IsLast(x, NumericMatches(text, o))
                        /\ parsed[o] = IntOf(MatchAt(text, x[1], x[2]).g2)

\* A text with an AUTO line for one output and a numeric line for another
\* was parsed: the first is absent, the second stored.
C6_Witness_AutoLineSkipped ==
    /\ parseDone
    /\ \E o \in OutputIds : AutoMatches(text, o) # {} /\ o \notin DOMAIN parsed
    /\ parsed # EmptyRoutes

\* Task p has a connection that open_connection returned.
Connected(p) == pc[p] \in {"banner", "read", "wait_closed"}

\* C7: every connection a command execution of client.py opened is closed
\* before the execution ends, on every exit path: an execution that had a
\* connection ends only with that connection closed, and a task that is idle
\* or queues for the lock has no connection.
C7_ClosedOnEveryExit ==
    /\ [](\A p \in Procs : pc[p] \in {"idle", "waiting"} => conn[p] \notin Live)
    /\ [][\A p \in Procs :
             (Connected(p) /\ ~Connected(p)') => conn[p] = "closed"]_vars

\* A switch_route call was cancelled in flight and its connection is closed.
C7_Witness_CancelledAndClosed ==
    \E p \in Switchers :
        result[p] = "cancelled" /\ pc[p] = "idle" /\ conn[p] = "closed"

\* The same for the __init__.py client: a caller that is idle has no
\* connection, and _send_command ends only with its connection closed.
RegClosedOnEveryExit ==
    /\ [](\A p \in RegProcs : rpc[p].at = "idle" => rconn[p] \notin Live)
    /\ [][\A p \in RegProcs :
             (rpc[p].at \in {"drain", "readline", "wait_closed"}
                /\ rpc'[p].at = "idle") => rconn[p] = "closed"]_vars

\* C8: the lock is held only by a task inside a command execution: when no
\* execution is in progress the lock is free.
C8_LockFreeWhenNoExecution ==
    /\ \A p \in Procs : lock = p => InExec(p)
    /\ (\A p \in Procs : ~InExec(p)) => lock = NoProc

\* A switch_route call failed, nothing is in progress and the lock is free.
C8_Witness_FreeAfterFailure ==
    /\ \E p \in Switchers : result[p] = "error"
    /\ \A p \in Procs : pc[p] = "idle"
    /\ lock = NoProc

\* C9: every command execution that holds the lock eventually releases it.
C9_EveryExecutionEnds ==
    \A p \in Procs : (lock = p) ~> (lock # p)

\* C10: switch_route of client.py with output < 1 or input < 1 raises
\* ValueError and does nothing else: no command with such an argument is ever
\* taken to _send_and_read, and the step that raises leaves the lock, its
\* queue, the connections and what was written as they were.
C10_InvalidArgsNoEffect ==
    /\ [](\A p \in Switchers, o \in ArgIds, i \in ArgIds :
             (o < 1 \/ i < 1) => cmd[p] # SwitchCmd(o, i))
    /\ [][\A p \in Switchers :
             (result'[p] = "ValueError" /\ result[p] # "ValueError") =>
                 UNCHANGED <<pc, lock, waiters, conn, cmd, sent>>]_vars

\* A switch_route call raised ValueError while another call holds the lock.
C10_Witness_ValueErrorRaised ==
    \E p \in Switchers, q \in Procs :
        /\ result[p] = "ValueError"
        /\ pc[p] = "idle"
        /\ q # p
        /\ lock = q

\* The same for the __init__.py client.
RegInvalidArgsNoEffect ==
    /\ [](\A p \in RegProcs, o \in ArgIds, i \in ArgIds :
             (o < 1 \/ i < 1) => rpc[p].command # RegSwitchCmd(o, i))
    /\ [][\A p \in RegProcs :
             (rresult'[p] = "ValueError" /\ rresult[p] # "ValueError") =>
                 UNCHANGED <<rpc, rconn>>]_vars

\* ------------------------------------------------------------ C11
\* ds is the decimal spelling of n, zero-padded to at least three digits.
PaddedId(ds, n) ==
    /\ Len(ds) >= 3
    /\ \A k \in 1..Len(ds) : ds[k] \in Digits
    /\ Len(ds) > 3 => ds[1] # "0"
    /\ IntOf(ds) = n

\* s is the line "OUT" sp o sp "FR" sp i CRLF, the ids padded to at least
\* three digits (exactly three when exact).
SwitchLine(s, o, i, sp, exact) ==
    \E a \in 3..6, b \in 3..6 :
        LET k == Len(sp)
            D == SubSeq(s, 2 + k, 1 + k + a)
            E == SubSeq(s, 3 + 3 * k + a, 2 + 3 * k + a + b)
        IN  /\ Len(s) = 3 + 3 * k + a + b
            /\ s = <<"OUT">> \o sp \o D \o sp \o <<"FR">> \o sp \o E \o <<"\r\n">>
            /\ PaddedId(D, o)
            /\ PaddedId(E, i)
            /\ exact => (a = 3 /\ b = 3)

\* What a running switch_route call has written is one line of the client's
\* form for the ids it was called with.
SwitchLinesWritten(exact) ==
    /\ \A p \in Switchers :
          /\ pc[p] = "read" => sent[p] # <<>>
          /\ (args[p] # NoArgs /\ sent[p] # <<>>) =>
                /\ Len(sent[p]) = 1
                /\ SwitchLine(sent[p][1], args[p][1], args[p][2], <<" ">>, exact)
    /\ \A p \in RegProcs :
          /\ rpc[p].at \in {"drain", "readline"} => rsent[p] # <<>>
          /\ (rpc[p].args # NoArgs /\ rsent[p] # <<>>) =>
                /\ Len(rsent[p]) = 1
                /\ SwitchLine(rsent[p][1], rpc[p].args[1], rpc[p].args[2], <<>>, exact)

\* C11 as stated: for all output >= 1 and input >= 1, switch_route writes
\* exactly one command line, CRLF-terminated, 'OUT ooo FR iii' (client.py)
\* or 'OUToooFRiii' (__init__.py), each id zero-padded to three digits.
C11_ThreeDigitIds == SwitchLinesWritten(TRUE)

\* C11 amended: switch_route writes exactly one CRLF-terminated command
\* line of that form in which each id is its decimal spelling zero-padded to
\* at least three digits: three digits for ids up to 999, all the digits of
\* a larger id.
C11_IdsPaddedToAtLeastThreeDigits == SwitchLinesWritten(FALSE)

\* switch_route(2, 5) of each client has written its line.
C11_Witness_Out2From5 ==
    /\ args["sw1"] = <<2, 5>>
    /\ sent["sw1"] = << <<"OUT", " ", "0", "0", "2", " ", "FR", " ", "0", "0", "5", "\r\n">> >>
    /\ rpc["service"].args = <<2, 5>>
    /\ rsent["service"] = << <<"OUT", "0", "0", "2", "FR", "0", "0", "5", "\r\n">> >>

\* ------------------------------------------------------------ C12
\* C12: once the command is written and the response read has ended, whatever
\* it gave (a rejection, an acknowledgement, an empty reply, nothing before
\* the timeout), the finally clause closes the connection and switch_route
\* returns successfully; only a cancellation by the caller, which the device
\* does not decide, ends the call otherwise.
C12_SuccessWhateverTheReply ==
    [][ /\ \A p \in Switchers :
              /\ outcome[p].replied =>
                    (outcome[p].k = "ok" /\ conn[p] \in {"closing", "closed"})
              /\ (outcome[p].replied /\ pc'[p] = "idle"
                    /\ result'[p] # "cancelled") =>
                    (result'[p] = "ok" /\ conn'[p] = "closed")
        /\ \A p \in RegProcs :
              /\ rpc[p].reply # "none" =>
                    (rpc[p].oc = "ok" /\ rconn[p] \in {"closing", "closed"})
              /\ (rpc[p].reply # "none" /\ rpc'[p].at = "idle"
                    /\ rresult'[p] # "cancelled") =>
                    (rresult'[p] = "ok" /\ rconn'[p] = "closed") ]_vars

\* The device rejected the command of each client's switch_route; the
\* connections are closed and the calls are about to return.
C12_Witness_RejectedAndClosed ==
    /\ pc["sw1"] = "wait_closed"
    /\ outcome["sw1"] = [k |-> "ok", text |-> << <<"ERR">> >>, replied |-> TRUE]
    /\ conn["sw1"] = "closed"
    /\ rpc["service"].at = "wait_closed"
    /\ rpc["service"].reply = "rejected"
    /\ rpc["service"].oc = "ok"
    /\ rconn["service"] = "closed"

\* ------------------------------------------------------------ C13
\* The bulk-query spellings, in the order the claim gives them.
BulkSpellings ==
    << <<"OUT", " ", "0", "0", "0", " ", "STATUS">>,
       <<"STATUS">>,
       <<"OUT", "0", "0", "0", "STATUS">>,
       <<"OUT", "0", "0", "0", " ", "STATUS">> >>

\* The command execution the poll cycle is in ends in this step with a
\* response whose parse has at least one route.
YieldsRoutes ==
    /\ pc[Poller] = "wait_closed"
    /\ outcome[Poller].k = "ok"
    /\ DOMAIN ParsedResponse(outcome[Poller].text) # {}

\* C13: get_routes_bulk sends 'OUT 000 STATUS', 'STATUS', 'OUT000STATUS',
\* 'OUT000 STATUS' one at a time in that order; the first response whose
\* parse has a route ends it with that parse and no later spelling is sent;
\* a spelling that yields nothing (no route, or an exception) is followed by
\* the next one, and after the last get_routes_bulk returns the empty
\* mapping instead of failing.
C13_BulkSpellingsInOrder ==
    [][ /\ poll.phase = "bulk" =>
              /\ poll.idx \in 1..4
              /\ ~poll.bulkDone
              /\ cmd[Poller] = BulkSpellings[poll.idx]
              /\ sent[Poller] \in {<<>>, <<BulkSpellings[poll.idx] \o <<"\r\n">> >>}
        /\ (poll.phase # "bulk" /\ poll'.phase = "bulk") => poll'.idx = 1
        /\ (poll.phase = "bulk" /\ poll' # poll /\ poll'.phase # "cancelled") =>
              IF YieldsRoutes
              THEN /\ poll'.phase # "bulk"
                   /\ poll'.bulkDone
                   /\ poll'.bulk = ParsedResponse(outcome[Poller].text)
              ELSE IF poll.idx < 4
              THEN /\ poll'.phase = "bulk"
                   /\ poll'.idx = poll.idx + 1
              ELSE /\ poll'.phase \in {"fallback", "done"}
                   /\ poll'.bulkDone
                   /\ poll'.bulk = EmptyRoutes ]_vars

\* The third spelling was the first to yield routes: they are what
\* get_routes_bulk returned, and the fourth was never sent.
C13_Witness_ThirdSpellingYields ==
    /\ lastUpdate = "ok"
    /\ poll.idx = 3
    /\ poll.bulkDone
    /\ poll.bulk # EmptyRoutes
    /\ poll.queried = <<>>

\* ------------------------------------------------------------ C14
\* c is "OUT" sp o sp "STATUS", o padded to at least three digits.
OutSpelling(c, o, sp) ==
    \E a \in 3..6 :
        LET k == Len(sp)
            D == SubSeq(c, 2 + k, 1 + k + a)
        IN  /\ Len(c) = 2 + 2 * k + a
            /\ c = <<"OUT">> \o sp \o D \o sp \o <<"STATUS">>
            /\ PaddedId(D, o)

\* The command execution of get_route_for_output ends in this step with a
\* response whose parse contains the queried output.
ContainsOutput ==
    /\ pc[Poller] = "wait_closed"
    /\ outcome[Poller].k = "ok"
    /\ poll.out \in DOMAIN ParsedResponse(outcome[Poller].text)

\* C14: get_route_for_output(o), o >= 1, sends 'OUT ooo STATUS' and, only if
\* that response does not contain o (or the command fails), 'OUToooSTATUS';
\* the first response whose parse contains o gives the value returned for o
\* and nothing else of it is kept; when neither contains o nothing is
\* stored for o (None); for o < 1 no command is sent at all.
C14_PerOutputQuery ==
    [][ /\ \A o \in -1..0 : GetRouteCmds(o) = <<>>
        /\ poll.phase = "fallback" =>
              /\ poll.out >= 1
              /\ poll.idx \in 1..2
              /\ OutSpelling(cmd[Poller], poll.out,
                             IF poll.idx = 1 THEN <<" ">> ELSE <<>>)
              /\ sent[Poller] \in {<<>>, <<cmd[Poller] \o <<"\r\n">> >>}
        /\ (poll.phase = "fallback" /\ poll' # poll /\ poll'.phase # "cancelled") =>
              IF ContainsOutput
              THEN /\ DOMAIN poll'.routes = DOMAIN poll.routes \cup {poll.out}
                   /\ \A k \in DOMAIN poll.routes \ {poll.out} :
                         poll'.routes[k] = poll.routes[k]
                   /\ poll'.routes[poll.out] =
                         ParsedResponse(outcome[Poller].text)[poll.out]
                   /\ poll'.phase = "fallback" => poll'.out > poll.out
              ELSE IF poll.idx = 1
              THEN /\ poll'.phase = "fallback"
                   /\ poll'.out = poll.out
                   /\ poll'.idx = 2
                   /\ poll'.routes = poll.routes
              ELSE /\ poll'.routes = poll.routes
                   /\ poll'.phase = "fallback" => poll'.out > poll.out ]_vars

\* Output 1 was resolved by get_route_for_output from a response that also
\* reports output 3: only output 1 is in the snapshot.
C14_Witness_OnlyQueriedOutputKept ==
    /\ lastUpdate = "ok"
    /\ poll.bulk = EmptyRoutes
    /\ 1 \in DOMAIN poll.routes
    /\ poll.routes[1] = 1
    /\ 3 \notin DOMAIN poll.routes

\* ------------------------------------------------------------ C15
\* Every key and every value of routes is an integer >= 1.
PositiveIds(routes) ==
    \A k \in DOMAIN routes :
        /\ k \in Nat /\ k >= 1
        /\ routes[k] \in Nat /\ routes[k] >= 1

\* C15: every key and every value of a _parse_routes result, of what
\* get_routes_bulk returned and of the snapshot a poll cycle builds is an
\* integer >= 1, whatever was polled before: an id of 0 that the device
\* reports ('OUT 000', 'IN 000') is not stored.
C15_OnlyPositiveIds ==
    /\ \A t \in Responses : PositiveIds(ParsedResponse(t))
    /\ PositiveIds(ParsedResponse(outcome[Poller].text))
    /\ PositiveIds(poll.bulk)
    /\ PositiveIds(poll.routes)

\* get_routes_bulk returned the parse of the response that reports output
\* 000 and input 000 next to a valid route, and the cycle ended.
C15_Witness_ZeroIdsReported ==
    /\ lastUpdate = "ok"
    /\ poll.bulk = (2 :> 1)
    /\ \E t \in Responses :
          /\ ParsedResponse(t) = poll.bulk
          /\ \E n \in 1..Len(t) : MatchAt(t, n, 1).ok /\ IntOf(MatchAt(t, n, 1).g1) = 0
          /\ \E n \in 1..Len(t) : MatchAt(t, n, 1).ok /\ IntOf(MatchAt(t, n, 1).g2) = 0

\* ------------------------------------------------------------ C16
\* C16: every key of the snapshot a poll cycle returns is an output id in
\* 1..N, N the configured number of outputs.
C16_SnapshotKeysConfigured ==
    lastUpdate = "ok" => DOMAIN poll.routes \subseteq 1..NumOutputs

\* ------------------------------------------------------------ C17
\* The (line, pattern) pairs of text whose match is for output o with a
\* numeric input token.
NumericTokenMatches(txt, o) ==
    {x \in (1..Len(txt)) \X (1..Len(ROUTE_RE_LIST)) :
        LET m == MatchAt(txt, x[1], x[2])
        IN  m.ok /\ Upper(m.g2[1]) # "AUTO" /\ IntOf(m.g1) = o}

\* C17 as stated: for every text in which some line matches a route pattern
\* with output o and numeric input i, the _parse_routes result maps o to i.
C17_EveryNumericMatchStored ==
    parseDone =>
        \A o \in OutputIds : \A x \in NumericTokenMatches(text, o) :
            /\ o \in DOMAIN parsed
            /\ parsed[o] = IntOf(MatchAt(text, x[1], x[2]).g2)

\* C17 amended: for every text in which some line matches a route pattern
\* with output o >= 1 and numeric input i >= 1, the _parse_routes result has
\* o, mapped to the input of the last such match for o (lines in order, then
\* patterns in order); matches with an id of 0 store nothing.
C17_LastPositiveMatchStored ==
    parseDone =>
        \A o \in OutputIds : \A x \in NumericMatches(text, o) :
            /\ o \in DOMAIN parsed
            /\ IsLast(x, NumericMatches(text, o)) =>
                  parsed[o] = IntOf(MatchAt(text, x[1], x[2]).g2)

\* Two lines of the parsed text give the same output different inputs: the
\* result has the input of the later line.
C17_Witness_LaterLineWins ==
    /\ parseDone
    /\ Len(text) = 2
    /\ \E o \in DOMAIN parsed :
          /\ <<1, 1>> \in NumericMatches(text, o)
          /\ <<2, 1>> \in NumericMatches(text, o)
          /\ IntOf(MatchAt(text, 1, 1).g2) # IntOf(MatchAt(text, 2, 1).g2)
          /\ parsed[o] = IntOf(MatchAt(text, 2, 1).g2)

\* ------------------------------------------------------------ C18
\* C18: the snapshot of a poll cycle is built only from the responses of that
\* cycle.  Whatever the previous cycle returned and however it ended, a cycle
\* starts with no route, no bulk result and no queried output; what
\* get_routes_bulk returns has only outputs of the response just parsed, and
\* each later step adds only outputs of the response just parsed.  So an
\* output of the previous snapshot that this cycle does not resolve is absent.
C18_SnapshotFromThisCycleOnly ==
    [][ /\ (poll.phase # "bulk" /\ poll'.phase = "bulk") =>
              /\ poll'.routes = EmptyRoutes
              /\ poll'.bulk = EmptyRoutes
              /\ ~poll'.bulkDone
              /\ poll'.queried = <<>>
              /\ poll'.idx = 1
        /\ poll.phase = "bulk" => poll.routes = EmptyRoutes
        /\ (poll.phase \in {"bulk", "fallback"} /\ poll' # poll) =>
              DOMAIN poll'.routes \subseteq
                  DOMAIN poll.routes
                      \cup DOMAIN ParsedResponse(outcome[Poller].text) ]_vars

\* The previous cycle returned a snapshot with an output in it; this cycle
\* resolved nothing and returned the empty snapshot.
C18_Witness_PreviousOutputGone ==
    /\ lastUpdate = "ok"
    /\ poll.hadData
    /\ poll.routes = EmptyRoutes

\* ------------------------------------------------------------ C19
\* l is one command line: CRLF ends it and occurs nowhere else in it.
OneLine(l) ==
    /\ Len(l) >= 2
    /\ l[Len(l)] = "\r\n"
    /\ \A k \in 1..(Len(l) - 1) : l[k] # "\r\n"

\* C19: each command execution opens one new connection and writes one
\* command line on it.  A connection becomes open only from a new attempt,
\* never from a closed one; a new execution starts with a new attempt and
\* nothing written; the one write of an execution is a single line on its
\* open connection.  So the lines written are as many as the connections
\* written on, and no more than the connections opened.
C19_OneConnectionOneLine ==
    [][ /\ \A p \in Procs :
              /\ Len(sent[p]) <= 1
              /\ sent[p] # <<>> => conn[p] \in {"open", "closing", "closed"}
              /\ (conn'[p] = "open" /\ conn[p] # "open") =>
                    (conn[p] = "connecting" /\ sent[p] = <<>>)
              /\ (pc'[p] = "connecting" /\ pc[p] # "connecting") =>
                    (conn'[p] = "connecting" /\ sent'[p] = <<>>)
              /\ (sent'[p] # sent[p] /\ sent'[p] # <<>>) =>
                    /\ sent[p] = <<>>
                    /\ conn[p] = "open" /\ conn'[p] = "open"
                    /\ Len(sent'[p]) = 1
                    /\ OneLine(sent'[p][1])
        /\ \A p \in RegProcs :
              /\ Len(rsent[p]) <= 1
              /\ rsent[p] # <<>> => rconn[p] \in {"open", "closing", "closed"}
              /\ (rconn'[p] = "open" /\ rconn[p] # "open") =>
                    (rconn[p] = "connecting" /\ rsent[p] = <<>>)
              /\ (rpc'[p].at = "connecting" /\ rpc[p].at # "connecting") =>
                    (rconn'[p] = "connecting" /\ rsent'[p] = <<>>)
              /\ (rsent'[p] # rsent[p] /\ rsent'[p] # <<>>) =>
                    /\ rsent[p] = <<>>
                    /\ rconn[p] = "connecting" /\ rconn'[p] = "open"
                    /\ Len(rsent'[p]) = 1
                    /\ OneLine(rsent'[p][1]) ]_vars

\* Each client's command execution has written its line and its connection
\* is closed, the call not yet returned.
C19_Witness_LineWrittenThenClosed ==
    /\ pc["sw1"] = "wait_closed"
    /\ conn["sw1"] = "closed"
    /\ Len(sent["sw1"]) = 1
    /\ rpc["service"].at = "wait_closed"
    /\ rconn["service"] = "closed"
    /\ Len(rsent["service"]) = 1

\* ------------------------------------------------------------ C20
\* C20: the current option or source of an entity changes only in the step in
\* which its switch_route call returns successfully, and then to the option
\* asked for; when the call fails (the error reaches the caller of
\* async_select_option / async_select_source) it is left unchanged; for an
\* option that is not in the entity's list no connection is opened, nothing
\* is written and nothing changes.
C20_CurrentChangesOnlyOnSuccess ==
    [][ \A e \in Entities :
          /\ current'[e] # current[e] =>
                /\ rpc[e].at = "wait_closed" /\ rpc[e].oc = "ok"
                /\ rconn[e] = "closed"
                /\ rresult'[e] = "ok"
                /\ current'[e] \in Options
                /\ rpc[e].args = <<OutputIdOf(e), InputOf(current'[e])>>
          /\ (rresult'[e] \in {"error", "ValueError", "cancelled"}
                /\ rresult[e] = "pending") =>
                current'[e] = current[e]
          /\ (rresult[e] = "pending" /\ rresult'[e] = "ok") =>
                current'[e] = InputLabel(rpc[e].args[2])
          /\ (rresult'[e] = "unknown_option" /\ rpc[e].at = "idle") =>
                /\ rpc'[e].at = "idle"
                /\ rconn'[e] = rconn[e]
                /\ rsent'[e] = rsent[e]
                /\ current'[e] = current[e] ]_vars

\* The select entity shows "Input 1" from an earlier successful call; its
\* call for "Input 2" wrote the command and then failed.
C20_Witness_FailedCallKeepsOption ==
    /\ current["select"] = <<"Input", " ", "1">>
    /\ rresult["select"] = "error"
    /\ rsent["select"] = << <<"OUT", "0", "0", "1", "FR", "0", "0", "2", "\r\n">> >>

\* ------------------------------------------------------------ C21
\* The accumulated text ends with the prompt marker: its last token before
\* any trailing blanks is ACM200> (in either case), not glued to a word.
EndsWithPrompt(b) ==
    \E j \in 1..Len(b) :
        /\ \A k \in (j + 1)..Len(b) : b[k] = " "
        /\ b[j] \in {"ACM200>", "acm200>"}
        /\ j > 1 => b[j - 1] \in {" ", "ACM200>", "acm200>"}

\* C21: _read_until_prompt goes on reading only while no stopping condition
\* holds, and returns at the first of: the prompt marker at the end of the
\* accumulated text, a read timeout, EOF, or the accumulated length reaching
\* max_bytes.  A timeout is not an error: the text accumulated so far
\* (possibly empty) is returned.  The loop always terminates.
C21_ReadStopsAtFirstCondition ==
    /\ [](rd.at = "reading" =>
            (~EndsWithPrompt(rd.buf) /\ Len(rd.buf) < MaxBytes))
    /\ [](rd.at = "returned" =>
            /\ rd.ret = rd.buf
            /\ \/ EndsWithPrompt(rd.buf)
               \/ Len(rd.buf) >= MaxBytes
               \/ rd.why \in {"timeout", "eof"})
    /\ [](rd.why = "timeout" => rd.at = "returned")
    /\ [](rd.at = "raised" => rd.why \in {"error", "cancelled"})
    /\ (rd.at = "reading") ~> (rd.at # "reading")

\* The read timed out after a chunk without a prompt: the chunk is returned.
C21_Witness_TimeoutReturnsPartialText ==
    /\ rd.at = "returned"
    /\ rd.why = "timeout"
    /\ rd.ret = <<"x">>

FirstMatch(line) ==
    LET R == {r \in 1..Len(ROUTE_RE_LIST) : Search(ROUTE_RE_LIST[r], line).ok}
    IN  IF R = {} THEN NoMatch ELSE Search(ROUTE_RE_LIST[Min(R)], line)

\* The routes of a text when each line is given to its first matching
\* pattern only.
RECURSIVE FirstMatchFrom(_, _, _)
FirstMatchFrom(routes, txt, n) ==
    IF n > Len(txt) THEN routes
    ELSE FirstMatchFrom(ApplyMatch(routes, FirstMatch(StripLine(txt[n]))),
                        txt, n + 1)

\* The pairs one line on its own contributes.
LinePairs(line) ==
    LET routes == ParseRoutes(<<line>>)
    IN  {<<o, routes[o]>> : o \in DOMAIN routes}

\* C23: on every line only the first pattern of ROUTE_RE_LIST that matches
\* contributes a route and later patterns are not applied, so a line
\* contributes at most one (output, input) pair, and a line that matches no
\* pattern contributes nothing.
C23_FirstMatchingPatternOnly ==
    parseDone =>
        /\ parsed = FirstMatchFrom(EmptyRoutes, text, 1)
        /\ \A n \in 1..Len(text) : Cardinality(LinePairs(text[n])) <= 1
        /\ \A n \in 1..Len(text) :
              FirstMatch(StripLine(text[n])) = NoMatch => LinePairs(text[n]) = {}

\* ------------------------------------------------------------ C24
\* Line n of text is an AUTO line: some pattern matches it, and every match
\* has the input token AUTO.
IsAutoLine(txt, n) ==
    /\ \E r \in 1..Len(ROUTE_RE_LIST) : MatchAt(txt, n, r).ok
    /\ \A r \in 1..Len(ROUTE_RE_LIST) :
          MatchAt(txt, n, r).ok => Upper(MatchAt(txt, n, r).g2[1]) = "AUTO"

\* The text without its AUTO lines.
RECURSIVE DropAutoLines(_, _)
DropAutoLines(txt, n) ==
    IF n > Len(txt) THEN <<>>
    ELSE IF IsAutoLine(txt, n) THEN DropAutoLines(txt, n + 1)
    ELSE <<txt[n]>> \o DropAutoLines(txt, n + 1)

\* The lines of text with a match that gives output o a numeric input
\* (an input of 0 included).
NumericLines(txt, o) == {x[1] : x \in NumericTokenMatches(txt, o)}

\* The lines of text with a match that gives output o >= 1 a numeric input
\* >= 1.
PositiveLines(txt, o) == {x[1] : x \in NumericMatches(txt, o)}

\* The input of the last pattern match on line n that gives output o a
\* numeric input.
LineValue(txt, n, o) ==
    LET R == {r \in 1..Len(ROUTE_RE_LIST) : <<n, r>> \in NumericTokenMatches(txt, o)}
    IN  IntOf(MatchAt(txt, n, Max(R)).g2)

\* C24 as stated: an AUTO line for output o leaves the route of o as it is,
\* and whenever lines of the text give o a numeric input, the result has o
\* with the value of the last such line.
C24_LastNumericLineReturned ==
    parseDone =>
        /\ parsed = ParseRoutes(DropAutoLines(text, 1))
        /\ \A o \in OutputIds :
              NumericLines(text, o) # {} =>
                  /\ o \in DOMAIN parsed
                  /\ parsed[o] = LineValue(text, Max(NumericLines(text, o)), o)

\* C24 amended: an AUTO line changes nothing (the result is that of the text
\* without its AUTO lines), and whenever lines of the text give output
\* o >= 1 a numeric input >= 1, the result has o with the value the last such
\* line gives it, whatever AUTO or zero lines for o come before or after.
C24_AutoKeepsLastPositive ==
    parseDone =>
        /\ parsed = ParseRoutes(DropAutoLines(text, 1))
        /\ \A o \in OutputIds :
              PositiveLines(text, o) # {} =>
                  /\ o \in DOMAIN parsed
                  /\ parsed[o] =
                        ParseRoutes(<<text[Max(PositiveLines(text, o))]>>)[o]

\* The first line gave an output a numeric input and the second line is an
\* AUTO line for the same output: the result keeps the input of the first.
C24_Witness_AutoAfterNumeric ==
    /\ parseDone
    /\ Len(text) = 2
    /\ IsAutoLine(text, 2)
    /\ \E o \in DOMAIN parsed :
          /\ AutoMatches(text, o) # {}
          /\ PositiveLines(text, o) = {1}
          /\ parsed[o] = IntOf(MatchAt(text, 1, 1).g2)

\* ------------------------------------------------------------ C25
\* C25: _make_unique_labels returns a list of the same length with pairwise
\* distinct entries, so the label -> input map has num_inputs entries and
\* every input 1..num_inputs is selectable through exactly one label.
C25_LabelsPairwiseDistinct ==
    lb.built =>
        /\ Len(lb.options) = Len(lb.names)
        /\ \A i, j \in 1..Len(lb.options) :
              i # j => lb.options[i] # lb.options[j]
        /\ Cardinality(DOMAIN lb.inputs) = Len(lb.names)
        /\ \A in_id \in 1..Len(lb.names) :
              Cardinality({label \in DOMAIN lb.inputs :
                              lb.inputs[label] = in_id}) = 1

\* ------------------------------------------------------------ C26
\* C26: the update interval is max(2, poll_interval) seconds: never below 2
\* for any configured integer, zero and negative ones included, and equal to
\* the configured value whenever that is at least 2.
C26_IntervalFloorTwo ==
    co.made =>
        /\ co.update_interval >= 2
        /\ co.update_interval >= co.poll_interval
        /\ co.update_interval \in {2, co.poll_interval}
        /\ co.poll_interval >= 2 => co.update_interval = co.poll_interval

\* A coordinator configured with a negative poll_interval polls every 2
\* seconds.
C26_Witness_NegativeIntervalFloored ==
    /\ co.made
    /\ co.poll_interval < 0
    /\ co.update_interval = 2

\* ------------------------------------------------------------ C27
\* C27: the switch_route service is registered exactly when the client
\* registry is non-empty and never twice without a removal in between, an
\* unloaded entry has no client in the registry, and a service call naming
\* an entry_id that is not in the registry sends no command.
C27_ServiceFollowsRegistry ==
    /\ services \in {0, 1}
    /\ services = 1 <=> domain_data.clients # <<>>
    /\ domain_data.service_registered <=> services = 1
    /\ \A e \in Entries :
          entryAt[e] \in {"unloaded", "failed_unload"} =>
              e \notin ClientIds(domain_data)
    /\ (svc.called /\ svc.entry_id # "" /\ svc.client # svc.entry_id) =>
          /\ svc.client = NoClient
          /\ svc.at = "idle"
          /\ rpc["service"].at = "idle"
          /\ rsent["service"] = <<>>

\* Entry e1 was unloaded while e2 stays loaded: the service is still
\* registered, and a call naming e1 has returned without a client.
C27_Witness_CallNamesUnloadedEntry ==
    /\ entryAt["e1"] = "unloaded"
    /\ entryAt["e2"] = "loaded"
    /\ services = 1
    /\ svc.called
    /\ svc.entry_id = "e1"
    /\ svc.client = NoClient
    /\ rsent["service"] = <<>>

====
